---- MODULE Spec2Model ----
(***************************************************************************)
(* Term-to-code resolution and extraction scoring of the automatic        *)
(* ICD-10 diagnosis pipeline (src/src/utils.py, src/src/utils/icd10mapper  *)
(* .py, src/src/utils/icd_extraction_pipeline.py).                         *)
(*                                                                         *)
(* Python values are modelled as follows.  A str is a TLA+ string (a       *)
(* sequence of characters); a list is a sequence; None is the record None; *)
(* a value that may be None is wrapped: Str(s), List(l).  A function call  *)
(* is a little process: pc says where it stands (idle, in its loop,        *)
(* returned, or left by an exception) and every loop iteration is a step,  *)
(* so the states in the middle of a scan are states of the model.          *)
(***************************************************************************)
EXTENDS Naturals, Sequences, FiniteSets, TLC

(***************************************************************************)
(* Bounds of the model.                                                    *)
(***************************************************************************)
\* longest list of terms handed to a resolver
MaxTerms == 2

(***************************************************************************)
(* Python values.                                                          *)
(***************************************************************************)
None == [tag |-> "None"]
Str(s) == [tag |-> "str", v |-> s]
List(l) == [tag |-> "list", v |-> l]

\* the elements of a sequence, as a set
ToSet(s) == {s[i] : i \in 1..Len(s)}

\* the sequences over S of length at most n
SeqsUpTo(S, n) == UNION {[1..k -> S] : k \in 0..n}

(***************************************************************************)
(* str.lower() and the substring test  key in s  of Python.                *)
(***************************************************************************)
UpperCase == "ABCDEFGHIJKLMNOPQRSTUVWXYZ"
LowerCase == "abcdefghijklmnopqrstuvwxyz"

\* the upper-case letters, each a string of one character
UpperChars == {SubSeq(UpperCase, i, i) : i \in 1..Len(UpperCase)}

\* c is a string of one character
LowerChar(c) ==
  IF c \in UpperChars
    THEN LET i == CHOOSE i \in 1..Len(UpperCase) : SubSeq(UpperCase, i, i) = c
         IN  SubSeq(LowerCase, i, i)
    ELSE c

RECURSIVE lower(_)
lower(s) ==
  IF Len(s) = 0 THEN ""
  ELSE LowerChar(SubSeq(s, 1, 1)) \o lower(SubSeq(s, 2, Len(s)))

\* c is a string of one character
UpperChar(c) ==
  IF \E i \in 1..Len(LowerCase) : SubSeq(LowerCase, i, i) = c
    THEN LET i == CHOOSE i \in 1..Len(LowerCase) : SubSeq(LowerCase, i, i) = c
         IN  SubSeq(UpperCase, i, i)
    ELSE c

RECURSIVE upper(_)
upper(s) ==
  IF Len(s) = 0 THEN ""
  ELSE UpperChar(SubSeq(s, 1, 1)) \o upper(SubSeq(s, 2, Len(s)))

\* Python's  k in s  for two str: k occurs in s as a contiguous run
StrIn(k, s) ==
  \E i \in 0..Len(s) : i + Len(k) <= Len(s) /\ SubSeq(s, i + 1, i + Len(k)) = k

(***************************************************************************)
(* The mapping tables the two ICD10Mapper classes build in __init__, in    *)
(* the insertion order of the dict literal (the order .items() yields).    *)
(***************************************************************************)
utils_ICD10Mapper_mapping ==
  << [key |-> "hypertension", code |-> "I10"],
     [key |-> "essential (primary) hypertension", code |-> "I10"],
     [key |-> "secondary hypertension", code |-> "I15"],
     [key |-> "hypertensive heart disease", code |-> "I11"],
     [key |-> "hypertensive chronic kidney disease", code |-> "I12"],
     [key |-> "hypertensive heart and chronic kidney disease", code |-> "I13"],
     [key |-> "hypertensive crisis", code |-> "I16"],
     [key |-> "heart failure", code |-> "I50"],
     [key |-> "acute myocardial infarction", code |-> "I21"],
     [key |-> "chronic ischemic heart disease", code |-> "I25"],
     [key |-> "angina pectoris", code |-> "I20"],
     [key |-> "atrial fibrillation", code |-> "I48"],
     [key |-> "cardiac arrhythmia", code |-> "I49"],
     [key |-> "pneumonia", code |-> "J18.9"],
     [key |-> "community-acquired pneumonia", code |-> "J18.9"],
     [key |-> "chronic obstructive pulmonary disease", code |-> "J44"],
     [key |-> "asthma", code |-> "J45"],
     [key |-> "acute bronchitis", code |-> "J20.9"],
     [key |-> "influenza", code |-> "J11.1"],
     [key |-> "type 1 diabetes mellitus", code |-> "E10"],
     [key |-> "type 2 diabetes mellitus", code |-> "E11"],
     [key |-> "diabetes mellitus", code |-> "E14"],
     [key |-> "diabetes with neurological complications", code |-> "E10.4"],
     [key |-> "diabetes with renal complications", code |-> "E10.2"],
     [key |-> "diabetes with ophthalmic complications", code |-> "E10.3"],
     [key |-> "thyroid disorder", code |-> "E07.9"],
     [key |-> "stroke", code |-> "I63"],
     [key |-> "cerebral infarction", code |-> "I63"],
     [key |-> "hemorrhagic stroke", code |-> "I61"],
     [key |-> "transient ischemic attack", code |-> "G45.9"],
     [key |-> "epilepsy", code |-> "G40"],
     [key |-> "dementia", code |-> "F03"],
     [key |-> "alzheimer disease", code |-> "G30.9"],
     [key |-> "chronic kidney disease", code |-> "N18"],
     [key |-> "acute kidney failure", code |-> "N17"],
     [key |-> "kidney failure", code |-> "N19"],
     [key |-> "nephritis", code |-> "N05"],
     [key |-> "major depressive disorder", code |-> "F33"],
     [key |-> "depression", code |-> "F33"],
     [key |-> "anxiety disorder", code |-> "F41.9"],
     [key |-> "generalized anxiety disorder", code |-> "F41.1"],
     [key |-> "schizophrenia", code |-> "F20"],
     [key |-> "osteoarthritis", code |-> "M19.9"],
     [key |-> "rheumatoid arthritis", code |-> "M06.9"],
     [key |-> "back pain", code |-> "M54.5"],
     [key |-> "neck pain", code |-> "M54.2"],
     [key |-> "gastroesophageal reflux disease", code |-> "K21.9"],
     [key |-> "peptic ulcer", code |-> "K27.9"],
     [key |-> "gastritis", code |-> "K29.7"],
     [key |-> "cirrhosis", code |-> "K74.6"],
     [key |-> "sepsis", code |-> "A41.9"],
     [key |-> "urinary tract infection", code |-> "N39.0"],
     [key |-> "cellulitis", code |-> "L03.9"],
     [key |-> "osteomyelitis", code |-> "M86.9"],
     [key |-> "lung cancer", code |-> "C34.9"],
     [key |-> "breast cancer", code |-> "C50.9"],
     [key |-> "colon cancer", code |-> "C18.9"],
     [key |-> "prostate cancer", code |-> "C61"],
     [key |-> "skin cancer", code |-> "C44.9"],
     [key |-> "fever", code |-> "R50.9"],
     [key |-> "headache", code |-> "R51"],
     [key |-> "chest pain", code |-> "R06.02"],
     [key |-> "shortness of breath", code |-> "R06.02"],
     [key |-> "cough", code |-> "R05"],
     [key |-> "abdominal pain", code |-> "R10.13"],
     [key |-> "fatigue", code |-> "R53.83"],
     [key |-> "nausea", code |-> "R11.0"],
     [key |-> "vomiting", code |-> "R11.10"],
     [key |-> "electrocardiogram", code |-> "Z51.89"],
     [key |-> "chest x-ray", code |-> "Z03.89"],
     [key |-> "blood test", code |-> "Z03.89"],
     [key |-> "epistaxis", code |-> "R04.0"],
     [key |-> "syncope", code |-> "R55"],
     [key |-> "dizziness", code |-> "R42"],
     [key |-> "insomnia", code |-> "G47.00"],
     [key |-> "constipation", code |-> "K59.00"],
     [key |-> "diarrhea", code |-> "K59.1"],
     [key |-> "obesity", code |-> "E66.9"],
     [key |-> "overweight", code |-> "E66.3"],
     [key |-> "malnutrition", code |-> "E46"],
     [key |-> "anemia", code |-> "D64.9"],
     [key |-> "hyperlipidemia", code |-> "E78.5"],
     [key |-> "hypothyroidism", code |-> "E03.9"],
     [key |-> "hyperthyroidism", code |-> "E05.90"] >>

icd10mapper_ICD10Mapper_mapping ==
  << [key |-> "hypertension", code |-> "I10"],
     [key |-> "essential (primary) hypertension", code |-> "I10"],
     [key |-> "secondary hypertension", code |-> "I15"],
     [key |-> "hypertensive heart disease", code |-> "I11"],
     [key |-> "hypertensive chronic kidney disease", code |-> "I12"],
     [key |-> "hypertensive heart and chronic kidney disease", code |-> "I13"],
     [key |-> "hypertensive crisis", code |-> "I16"],
     [key |-> "heart failure", code |-> "I50"],
     [key |-> "acute myocardial infarction", code |-> "I21"],
     [key |-> "chronic ischemic heart disease", code |-> "I25"],
     [key |-> "angina pectoris", code |-> "I20"],
     [key |-> "atrial fibrillation", code |-> "I48"],
     [key |-> "cardiac arrhythmia", code |-> "I49"],
     [key |-> "pneumonia", code |-> "J18.9"],
     [key |-> "community-acquired pneumonia", code |-> "J18.9"],
     [key |-> "chronic obstructive pulmonary disease", code |-> "J44"],
     [key |-> "asthma", code |-> "J45"],
     [key |-> "acute bronchitis", code |-> "J20.9"],
     [key |-> "influenza", code |-> "J11.1"],
     [key |-> "type 1 diabetes mellitus", code |-> "E10"],
     [key |-> "type 2 diabetes mellitus", code |-> "E11"],
     [key |-> "diabetes mellitus", code |-> "E14"],
     [key |-> "diabetes with neurological complications", code |-> "E10.4"],
     [key |-> "diabetes with renal complications", code |-> "E10.2"],
     [key |-> "diabetes with ophthalmic complications", code |-> "E10.3"],
     [key |-> "thyroid disorder", code |-> "E07.9"],
     [key |-> "stroke", code |-> "I63"],
     [key |-> "cerebral infarction", code |-> "I63"],
     [key |-> "hemorrhagic stroke", code |-> "I61"],
     [key |-> "transient ischemic attack", code |-> "G45.9"],
     [key |-> "epilepsy", code |-> "G40"],
     [key |-> "dementia", code |-> "F03"],
     [key |-> "alzheimer disease", code |-> "G30.9"],
     [key |-> "chronic kidney disease", code |-> "N18"],
     [key |-> "acute kidney failure", code |-> "N17"],
     [key |-> "kidney failure", code |-> "N19"],
     [key |-> "nephritis", code |-> "N05"],
     [key |-> "major depressive disorder", code |-> "F33"],
     [key |-> "depression", code |-> "F33"],
     [key |-> "anxiety disorder", code |-> "F41.9"],
     [key |-> "generalized anxiety disorder", code |-> "F41.1"],
     [key |-> "schizophrenia", code |-> "F20"],
     [key |-> "osteoarthritis", code |-> "M19.9"],
     [key |-> "rheumatoid arthritis", code |-> "M06.9"],
     [key |-> "back pain", code |-> "M54.5"],
     [key |-> "neck pain", code |-> "M54.2"],
     [key |-> "gastroesophageal reflux disease", code |-> "K21.9"],
     [key |-> "peptic ulcer", code |-> "K27.9"],
     [key |-> "gastritis", code |-> "K29.7"],
     [key |-> "cirrhosis", code |-> "K74.6"],
     [key |-> "sepsis", code |-> "A41.9"],
     [key |-> "urinary tract infection", code |-> "N39.0"],
     [key |-> "cellulitis", code |-> "L03.9"],
     [key |-> "osteomyelitis", code |-> "M86.9"],
     [key |-> "lung cancer", code |-> "C34.9"],
     [key |-> "breast cancer", code |-> "C50.9"],
     [key |-> "colon cancer", code |-> "C18.9"],
     [key |-> "prostate cancer", code |-> "C61"],
     [key |-> "skin cancer", code |-> "C44.9"],
     [key |-> "fever", code |-> "R50.9"],
     [key |-> "headache", code |-> "R51"],
     [key |-> "chest pain", code |-> "R06.02"],
     [key |-> "shortness of breath", code |-> "R06.02"],
     [key |-> "cough", code |-> "R05"],
     [key |-> "abdominal pain", code |-> "R10.13"],
     [key |-> "fatigue", code |-> "R53.83"],
     [key |-> "nausea", code |-> "R11.0"],
     [key |-> "vomiting", code |-> "R11.10"],
     [key |-> "electrocardiogram", code |-> "Z51.89"],
     [key |-> "chest x-ray", code |-> "Z03.89"],
     [key |-> "blood test", code |-> "Z03.89"],
     [key |-> "epistaxis", code |-> "R04.0"],
     [key |-> "syncope", code |-> "R55"],
     [key |-> "dizziness", code |-> "R42"],
     [key |-> "insomnia", code |-> "G47.00"],
     [key |-> "constipation", code |-> "K59.00"],
     [key |-> "diarrhea", code |-> "K59.1"],
     [key |-> "obesity", code |-> "E66.9"],
     [key |-> "overweight", code |-> "E66.3"],
     [key |-> "malnutrition", code |-> "E46"],
     [key |-> "anemia", code |-> "D64.9"],
     [key |-> "hyperlipidemia", code |-> "E78.5"],
     [key |-> "hypothyroidism", code |-> "E03.9"],
     [key |-> "hyperthyroidism", code |-> "E05.90"] >>

(***************************************************************************)
(* Inputs.  Terms are the entity strings handed to the resolvers: mixed    *)
(* case, a term that holds two keys with different codes ("hypertension"   *)
(* and "secondary hypertension"), one that holds two keys with the same    *)
(* code ("pneumonia", "community-acquired pneumonia"), a key inside an     *)
(* unrelated word ("heatstroke"), an unmapped term and the empty string.   *)
(***************************************************************************)
Terms ==
  { "", "rash", "heatstroke", "Epistaxis", "Essential hypertension",
    "SECONDARY HYPERTENSION", "Community-acquired pneumonia" }

\* what a caller may pass as  terms / entities : a list of terms, or None
TermLists == {List(l) : l \in SeqsUpTo(Terms, MaxTerms)} \cup {None}

\* the orders in which list(set(...)) may yield the elements of S: the
\* iteration order of a set of str depends on the hash seed of the process
Orderings(S) ==
  {o \in [1..Cardinality(S) -> S] : \A i, j \in 1..Cardinality(S) : o[i] = o[j] => i = j}

VARIABLES
  cls,         \* the ICD10Mapper class that was constructed: "utils" or "icd10mapper"
  mapping,     \* self.mapping, as the sequence of its items
  pc,          \* "idle", "scan" (in the loops), "done" (returned), "raised"
  fn,          \* the function that is running or ran last
  arg,         \* its argument
  ti,          \* index in arg of the term the outer loop stands at
  ki,          \* index in mapping of the item the inner loop stands at
  term_lower,  \* term.lower() of the current term
  codes,       \* the local list codes / icd_codes
  ret,         \* the value returned (pc = "done")
  exc,         \* the exception that left the function (pc = "raised")
  results_df,  \* the rows of the DataFrame handed to evaluate_extraction
  total_records, \* len(results_df)
  ri,          \* index of the row the loop over results_df stands at
  ei,          \* index of the entity the loop over the row's entities stands at
  ground_truth, \* the lowercased ground truth of the current row
  matches,     \* the local counter matches
  ref_df,      \* a DataFrame the caller evaluated earlier and remembers
  ref_metrics, \* the metrics that evaluation returned (None: none remembered)
  spark_df,    \* the rows of the DataFrame handed to extract_diagnoses
  ner_result,  \* per row, the entity strings the fitted pipeline delivered
  results_pd,  \* the local DataFrame results_pd of extract_diagnoses
  xi,          \* index of the row the apply over results_pd stands at
  mpc,         \* the position of main
  main_df,     \* main's local df, the DataFrame read from the input file
  results,     \* main's local results
  eval_metrics, \* main's local eval_metrics
  log,         \* what main logged and printed so far, in order
  out_file,    \* the results file: None, or the rows written to it
  exit_status, \* None while main runs, then how the process ended
  workers,     \* per worker, the frame of its call of the lambda of extract_diagnoses
  lpc,         \* the position of setup_logging
  log_level,   \* its argument log_level
  log_file,    \* its argument log_file
  logger_level, \* the level of the logger "icd_extraction"
  logger_handlers \* logger.handlers of that logger

\* the locals of the resolvers
rvars == <<ti, ki, term_lower, codes>>
\* the locals of evaluate_extraction, and its argument
evars == <<results_df, total_records, ri, ei, ground_truth, matches>>

\* what the callers keep between calls
\* the locals of extract_diagnoses, and its argument
xvars == <<spark_df, ner_result, results_pd, xi>>
\* the locals of main, and what it leaves outside the process
mvars == <<mpc, main_df, results, eval_metrics, log, out_file, exit_status>>

\* the frame of setup_logging and the logger "icd_extraction"
lvars == <<lpc, log_level, log_file, logger_level, logger_handlers>>

cvars == <<ref_df, ref_metrics, xvars, mvars, workers, lvars>>

vars == <<cls, mapping, pc, fn, arg, ret, exc, rvars, evars, cvars>>

\* most workers that resolve records at the same time
MaxWorkers == 2
Workers == 1..MaxWorkers

\* the frame of a worker that has not been given a record
IdleFrame ==
  [pc |-> "idle", x |-> None, ti |-> 0, ki |-> 0, term_lower |-> "", codes |-> <<>>,
   ret |-> None]

\* faulty variant: an entry is written as it stands in the ICD-10 index,
\* capitalised and with the code of the subcategory
ICD10Mapper_init_as_indexed(c) ==
  <<[key |-> "Hypertension", code |-> "I10"],
    [key |-> "dyspnea", code |-> "R06.0.2"]>>
    \o (IF c = "utils" THEN utils_ICD10Mapper_mapping ELSE icd10mapper_ICD10Mapper_mapping)

\* ICD10Mapper.__init__ of either module
ICD10Mapper_init(c) ==
  IF c = "utils" THEN utils_ICD10Mapper_mapping ELSE icd10mapper_ICD10Mapper_mapping

Init ==
  /\ cls \in {"utils", "icd10mapper"}
  /\ mapping = ICD10Mapper_init(cls)
  /\ pc = "idle"
  /\ fn = "none"
  /\ arg = None
  /\ ti = 0
  /\ ki = 0
  /\ term_lower = ""
  /\ codes = <<>>
  /\ ret = None
  /\ exc = "none"
  /\ results_df = <<>>
  /\ total_records = 0
  /\ ri = 0
  /\ ei = 0
  /\ ground_truth = ""
  /\ matches = 0
  /\ ref_df = <<>>
  /\ ref_metrics = None
  /\ spark_df = <<>>
  /\ ner_result = <<>>
  /\ results_pd = <<>>
  /\ xi = 0
  /\ mpc = "start"
  /\ main_df = None
  /\ results = None
  /\ eval_metrics = None
  /\ log = <<>>
  /\ out_file = None
  /\ exit_status = None
  /\ workers = [w \in Workers |-> IdleFrame]
  /\ lpc = "idle"
  /\ log_level = "INFO"
  /\ log_file = None
  /\ logger_level = "NOTSET"
  /\ logger_handlers = <<>>

\* faulty variant: the term is compared as written, not lowercased
term_lower_of_as_written(term) == term

\* term_lower = term.lower()  /  entity_lower = entity.lower()
term_lower_of(term) == lower(term)

\* a caller may call when nothing is running
Callable == pc = "idle"

\* the loop position after the pair (ti, ki) of a run over the list l:
\* the next item of the dict or, after the last one, the next term
NextPos(l) ==
  IF ki < Len(mapping)
    THEN /\ ki' = ki + 1
         /\ UNCHANGED <<ti, term_lower>>
    ELSE /\ ki' = 1
         /\ ti' = ti + 1
         /\ term_lower' = IF ti + 1 <= Len(l) THEN term_lower_of(l[ti + 1]) ELSE ""

\* entering  for term in l  with codes = []
EnterLoop(l) ==
  /\ pc' = "scan"
  /\ ti' = 1
  /\ ki' = 1
  /\ term_lower' = IF Len(l) >= 1 THEN term_lower_of(l[1]) ELSE ""
  /\ exc' = "none"

\* leaving by an exception
Raise(e) ==
  /\ pc' = "raised"
  /\ exc' = e
  /\ UNCHANGED <<ti, ki, term_lower>>

(***************************************************************************)
(* ICD10Mapper.map_terms_to_codes (utils.py 297-313, icd10mapper.py        *)
(* 129-145: the same text in both classes).                                *)
(***************************************************************************)
\* faulty variant: the test  code not in codes  is missing
map_terms_to_codes_body_without_dedup(cs, item, tl) ==
  IF StrIn(item.key, tl) THEN Append(cs, item.code) ELSE cs

\* faulty variant: the containment test is the wrong way round
map_terms_to_codes_body_term_in_key(cs, item, tl) ==
  IF StrIn(tl, item.key) /\ item.code \notin ToSet(cs)
    THEN Append(cs, item.code)
    ELSE cs

\* faulty variant: the key must equal the term, not merely occur in it
map_terms_to_codes_body_exact_key(cs, item, tl) ==
  IF item.key = tl /\ item.code \notin ToSet(cs)
    THEN Append(cs, item.code)
    ELSE cs

\* faulty variant: a code is appended only while the list is empty
map_terms_to_codes_body_one_code(cs, item, tl) ==
  IF StrIn(item.key, tl) /\ cs = <<>> THEN Append(cs, item.code) ELSE cs

\* the body of the inner loop: one (term, item) pair
map_terms_to_codes_body(cs, item, tl) ==
  IF StrIn(item.key, tl) /\ item.code \notin ToSet(cs)
    THEN Append(cs, item.code)
    ELSE cs

\* the call; iterating None raises TypeError
map_terms_to_codes_call ==
  /\ Callable
  /\ \E terms \in TermLists :
       /\ fn' = "map_terms_to_codes"
       /\ arg' = terms
       /\ codes' = <<>>
       /\ ret' = None
       /\ IF terms = None THEN Raise("TypeError") ELSE EnterLoop(terms.v)
       /\ UNCHANGED <<cvars, cls, mapping, evars>>

map_terms_to_codes_step ==
  /\ pc = "scan"
  /\ fn = "map_terms_to_codes"
  /\ ti <= Len(arg.v)
  /\ codes' = map_terms_to_codes_body(codes, mapping[ki], term_lower)
  /\ NextPos(arg.v)
  /\ UNCHANGED <<cvars, cls, mapping, pc, fn, arg, ret, exc, evars>>

map_terms_to_codes_return ==
  /\ pc = "scan"
  /\ fn = "map_terms_to_codes"
  /\ ti > Len(arg.v)
  /\ ret' = List(codes)
  /\ pc' = "done"
  /\ UNCHANGED <<cvars, cls, mapping, fn, arg, ti, ki, term_lower, codes, exc, evars>>

(***************************************************************************)
(* map_diagnosis_to_icd10 (utils.py 78-96), the module-level function of   *)
(* utils.py, called with the dict of that module's mapper as mapping_dict. *)
(***************************************************************************)
\* faulty variant: the entity is looked up as a key, not searched for keys
map_diagnosis_to_icd10_body_lookup(cs, item, tl) ==
  IF item.key = tl /\ item.code \notin ToSet(cs)
    THEN Append(cs, item.code)
    ELSE cs

map_diagnosis_to_icd10_body(cs, item, tl) ==
  IF StrIn(item.key, tl) /\ item.code \notin ToSet(cs)
    THEN Append(cs, item.code)
    ELSE cs

\* if entities:  is false for None and for the empty list
Truthy(x) == x # None /\ Len(x.v) > 0

map_diagnosis_to_icd10_call ==
  /\ Callable
  /\ cls = "utils"
  /\ \E entities \in TermLists :
       /\ fn' = "map_diagnosis_to_icd10"
       /\ arg' = entities
       /\ codes' = <<>>
       /\ ret' = None
       /\ IF Truthy(entities)
            THEN EnterLoop(entities.v)
            ELSE /\ pc' = "scan"
                 /\ ti' = 1
                 /\ ki' = 1
                 /\ term_lower' = ""
                 /\ exc' = "none"
       /\ UNCHANGED <<cvars, cls, mapping, evars>>

map_diagnosis_to_icd10_step ==
  /\ pc = "scan"
  /\ fn = "map_diagnosis_to_icd10"
  /\ Truthy(arg)
  /\ ti <= Len(arg.v)
  /\ codes' = map_diagnosis_to_icd10_body(codes, mapping[ki], term_lower)
  /\ NextPos(arg.v)
  /\ UNCHANGED <<cvars, cls, mapping, pc, fn, arg, ret, exc, evars>>

\* return list(set(icd_codes))
map_diagnosis_to_icd10_result(cs) == {List(o) : o \in Orderings(ToSet(cs))}

map_diagnosis_to_icd10_return ==
  /\ pc = "scan"
  /\ fn = "map_diagnosis_to_icd10"
  /\ Truthy(arg) => ti > Len(arg.v)
  /\ ret' \in map_diagnosis_to_icd10_result(codes)
  /\ pc' = "done"
  /\ UNCHANGED <<cvars, cls, mapping, fn, arg, ti, ki, term_lower, codes, exc, evars>>

(***************************************************************************)
(* ICD10Mapper.get_icd10_code (utils.py 281-295; the class of              *)
(* icd10mapper.py has no such method).                                     *)
(***************************************************************************)
get_icd10_code_call ==
  /\ Callable
  /\ cls = "utils"
  /\ \E term \in Terms :
       /\ fn' = "get_icd10_code"
       /\ arg' = Str(term)
       /\ codes' = <<>>
       /\ ret' = None
       /\ pc' = "scan"
       /\ ti' = 1
       /\ ki' = 1
       /\ term_lower' = term_lower_of(term)
       /\ exc' = "none"
       /\ UNCHANGED <<cvars, cls, mapping, evars>>

\* faulty variant:  return None  sits inside the loop, so the scan gives
\* up at the first key that is not in term_lower
get_icd10_code_step_gives_up ==
  /\ pc = "scan"
  /\ fn = "get_icd10_code"
  /\ ret' = IF StrIn(mapping[ki].key, term_lower) THEN Str(mapping[ki].code) ELSE None
  /\ pc' = "done"
  /\ UNCHANGED <<cvars, cls, mapping, fn, arg, rvars, exc, evars>>

\* faulty variant: a term that was resolved through a key it contains is
\* put into the mapping, for the next lookup
get_icd10_code_step_caches ==
  /\ pc = "scan"
  /\ fn = "get_icd10_code"
  /\ IF StrIn(mapping[ki].key, term_lower)
       THEN /\ ret' = Str(mapping[ki].code)
            /\ pc' = "done"
            /\ mapping' = IF \E k \in 1..Len(mapping) : mapping[k].key = term_lower
                             THEN mapping
                             ELSE Append(mapping, [key |-> term_lower, code |-> mapping[ki].code])
            /\ UNCHANGED ki
       ELSE IF ki < Len(mapping)
         THEN /\ ki' = ki + 1
              /\ UNCHANGED <<ret, pc, mapping>>
         ELSE /\ ret' = None
              /\ pc' = "done"
              /\ UNCHANGED <<ki, mapping>>
  /\ UNCHANGED <<cvars, cls, fn, arg, ti, term_lower, codes, exc, evars>>

\* one item of the loop: return at the first key found in term_lower,
\* return None after the last item
get_icd10_code_step ==
  /\ pc = "scan"
  /\ fn = "get_icd10_code"
  /\ IF StrIn(mapping[ki].key, term_lower)
       THEN /\ ret' = Str(mapping[ki].code)
            /\ pc' = "done"
            /\ UNCHANGED ki
       ELSE IF ki < Len(mapping)
         THEN /\ ki' = ki + 1
              /\ UNCHANGED <<ret, pc>>
         ELSE /\ ret' = None
              /\ pc' = "done"
              /\ UNCHANGED ki
  /\ UNCHANGED <<cvars, cls, mapping, fn, arg, ti, term_lower, codes, exc, evars>>

(***************************************************************************)
(* ICDDiagnosisExtractor.evaluate_extraction (icd_extraction_pipeline.py   *)
(* 123-160).  A row of results_df holds the two columns the function       *)
(* reads: entities_detected (a list of str, or None) and                   *)
(* diagnosis_ground_truth (a str, or None / NaN, both modelled as None).   *)
(* The float accuracy is modelled as the exact fraction num / den (the     *)
(* rounding of the two float operations is not modelled).                  *)
(***************************************************************************)
\* longest DataFrame handed to evaluate_extraction
MaxRecords == 2

\* the entity lists of the rows: absent, empty, an empty entity, an entity
\* outside the ground truth, entities in it (in another case), several
\* entities of which more than one is in it, an empty one before a hit
EntityLists ==
  { None, List(<<>>), List(<<"">>), List(<<"fever">>), List(<<"PNEUMONIA">>),
    List(<<"fever", "Pneumonia", "hypertension">>), List(<<"", "pneumonia">>) }

GroundTruths ==
  { None, Str(""), Str("Community-acquired pneumonia, Hypertension stage 2") }

Rows == [entities_detected : EntityLists, diagnosis_ground_truth : GroundTruths]

DataFrames == SeqsUpTo(Rows, MaxRecords)

Frac(n, d) == [num |-> n, den |-> d]

\* a / b  on numbers: dividing by zero raises ZeroDivisionError
ZeroDivision == [tag |-> "ZeroDivisionError"]
TrueDiv(a, b) == IF b = 0 THEN ZeroDivision ELSE Frac(a, b)
Times(q, n) == IF q = ZeroDivision THEN ZeroDivision ELSE Frac(q.num * n, q.den)

\* line 145: str(row[ground_truth_col]).lower() if pd.notna(...) else ""
ground_truth_of(row) ==
  IF row.diagnosis_ground_truth # None
    THEN lower(row.diagnosis_ground_truth.v)
    ELSE ""

\* line 147: entities is not None and isinstance(entities, list) and len(entities) > 0
has_entities(row) ==
  /\ row.entities_detected # None
  /\ Len(row.entities_detected.v) > 0

\* faulty variant: the test  entity and  is missing
entity_matches_unguarded(entity, gt) == StrIn(lower(entity), gt)

\* line 149: entity and entity.lower() in ground_truth
entity_matches(entity, gt) == entity # "" /\ StrIn(lower(entity), gt)

\* faulty variant: the fraction is not scaled to a percentage
accuracy_of_unscaled(m, total) == IF total > 0 THEN TrueDiv(m, total) ELSE Frac(0, 1)

\* line 153: (matches / total_records) * 100 if total_records > 0 else 0.0
accuracy_of(m, total) ==
  IF total > 0 THEN Times(TrueDiv(m, total), 100) ELSE Frac(0, 1)

\* moving the loop of line 143 to row r of df (past the last row: nothing to read)
GoToRow(df, r) ==
  /\ ri' = r
  /\ ei' = 1
  /\ ground_truth' = IF r <= Len(df) THEN ground_truth_of(df[r]) ELSE ""

\* faulty variant: no early return, and a ratio per record is computed
\* from total_records before the loop
evaluate_extraction_call_divides_first ==
  /\ Callable
  /\ \E df \in DataFrames :
       /\ fn' = "evaluate_extraction"
       /\ results_df' = df
       /\ total_records' = Len(df)
       /\ matches' = 0
       /\ ret' = None
       /\ IF TrueDiv(100, Len(df)) = ZeroDivision
            THEN /\ pc' = "raised"
                 /\ exc' = "ZeroDivisionError"
                 /\ ri' = 0
                 /\ ei' = 0
                 /\ ground_truth' = ""
            ELSE /\ pc' = "scan"
                 /\ exc' = "none"
                 /\ GoToRow(df, 1)
       /\ UNCHANGED <<cvars, cls, mapping, arg, rvars>>

\* faulty variant: the counter is not set to 0, it goes on from the
\* value the previous evaluation left
evaluate_extraction_enter_keeps_matches(df) ==
  /\ fn' = "evaluate_extraction"
  /\ results_df' = df
  /\ total_records' = Len(df)
  /\ UNCHANGED matches
  /\ exc' = "none"
  /\ IF Len(df) = 0
       THEN /\ ret' = [accuracy |-> Frac(0, 1), total_records |-> 0]
            /\ pc' = "done"
            /\ ri' = 0
            /\ ei' = 0
            /\ ground_truth' = ""
       ELSE /\ ret' = None
            /\ pc' = "scan"
            /\ GoToRow(df, 1)
  /\ UNCHANGED <<cvars, cls, mapping, arg, rvars>>

\* lines 137-142, entered with the DataFrame df: the empty DataFrame
\* returns at once, with two keys
evaluate_extraction_enter(df) ==
  /\ fn' = "evaluate_extraction"
  /\ results_df' = df
  /\ total_records' = Len(df)
  /\ matches' = 0
  /\ exc' = "none"
  /\ IF Len(df) = 0
       THEN /\ ret' = [accuracy |-> Frac(0, 1), total_records |-> 0]
            /\ pc' = "done"
            /\ ri' = 0
            /\ ei' = 0
            /\ ground_truth' = ""
       ELSE /\ ret' = None
            /\ pc' = "scan"
            /\ GoToRow(df, 1)
  /\ UNCHANGED <<cvars, cls, mapping, arg, rvars>>

evaluate_extraction_call ==
  /\ Callable
  /\ \E df \in DataFrames : evaluate_extraction_enter(df)

\* faulty variant: the lowercased ground truth is written back into the row
evaluate_extraction_step_writes_back ==
  /\ pc = "scan"
  /\ fn = "evaluate_extraction"
  /\ ri <= total_records
  /\ results_df' = [results_df EXCEPT ![ri].diagnosis_ground_truth = Str(ground_truth)]
  /\ LET row == results_df[ri] IN
       IF ~has_entities(row)
         THEN /\ GoToRow(results_df, ri + 1)
              /\ UNCHANGED matches
         ELSE IF entity_matches(row.entities_detected.v[ei], ground_truth)
           THEN /\ matches' = matches + 1
                /\ GoToRow(results_df, ri + 1)
           ELSE IF ei < Len(row.entities_detected.v)
             THEN /\ ei' = ei + 1
                  /\ UNCHANGED <<ri, ground_truth, matches>>
             ELSE /\ GoToRow(results_df, ri + 1)
                  /\ UNCHANGED matches
  /\ UNCHANGED <<cvars, cls, mapping, pc, fn, arg, ret, exc, rvars, total_records>>

\* faulty variant: no break after a hit, every entity in the ground truth
\* is counted
evaluate_extraction_step_without_break ==
  /\ pc = "scan"
  /\ fn = "evaluate_extraction"
  /\ ri <= total_records
  /\ LET row == results_df[ri] IN
       IF ~has_entities(row)
         THEN /\ GoToRow(results_df, ri + 1)
              /\ UNCHANGED matches
         ELSE /\ matches' = IF entity_matches(row.entities_detected.v[ei], ground_truth)
                              THEN matches + 1 ELSE matches
              /\ IF ei < Len(row.entities_detected.v)
                   THEN /\ ei' = ei + 1
                        /\ UNCHANGED <<ri, ground_truth>>
                   ELSE GoToRow(results_df, ri + 1)
  /\ UNCHANGED <<cvars, cls, mapping, pc, fn, arg, ret, exc, rvars, results_df, total_records>>

\* lines 143-151, one entity of the current row (or the row, when it has
\* no entities): a hit counts the row once and breaks to the next row
evaluate_extraction_step ==
  /\ pc = "scan"
  /\ fn = "evaluate_extraction"
  /\ ri <= total_records
  /\ LET row == results_df[ri] IN
       IF ~has_entities(row)
         THEN /\ GoToRow(results_df, ri + 1)
              /\ UNCHANGED matches
         ELSE IF entity_matches(row.entities_detected.v[ei], ground_truth)
           THEN /\ matches' = matches + 1
                /\ GoToRow(results_df, ri + 1)
           ELSE IF ei < Len(row.entities_detected.v)
             THEN /\ ei' = ei + 1
                  /\ UNCHANGED <<ri, ground_truth, matches>>
             ELSE /\ GoToRow(results_df, ri + 1)
                  /\ UNCHANGED matches
  /\ UNCHANGED <<cvars, cls, mapping, pc, fn, arg, ret, exc, rvars, results_df, total_records>>

\* lines 153-160
evaluate_extraction_return ==
  /\ pc = "scan"
  /\ fn = "evaluate_extraction"
  /\ ri > total_records
  /\ LET accuracy == accuracy_of(matches, total_records) IN
       IF accuracy = ZeroDivision
         THEN /\ pc' = "raised"
              /\ exc' = "ZeroDivisionError"
              /\ UNCHANGED ret
         ELSE /\ ret' = [accuracy |-> accuracy,
                         total_records |-> total_records,
                         correctly_matched_records |-> matches,
                         incorrectly_matched_records |-> total_records - matches]
              /\ pc' = "done"
              /\ UNCHANGED exc
  /\ UNCHANGED <<cvars, cls, mapping, fn, arg, rvars, evars>>

\* the caller has taken the result (or caught the exception) of the call:
\* the frame of the call is gone, the mapper is ready for the next call
caller_resume ==
  /\ pc \in {"done", "raised"}
  /\ pc' = "idle"
  /\ fn' = "none"
  /\ arg' = None
  /\ ti' = 0
  /\ ki' = 0
  /\ term_lower' = ""
  /\ codes' = <<>>
  /\ ret' = None
  /\ exc' = "none"
  /\ results_df' = <<>>
  /\ total_records' = 0
  /\ ri' = 0
  /\ ei' = 0
  /\ ground_truth' = ""
  /\ matches' = 0
  /\ UNCHANGED <<cvars, cls, mapping>>

Next ==
  \/ map_terms_to_codes_call
  \/ map_terms_to_codes_step
  \/ map_terms_to_codes_return
  \/ map_diagnosis_to_icd10_call
  \/ map_diagnosis_to_icd10_step
  \/ map_diagnosis_to_icd10_return
  \/ get_icd10_code_call
  \/ get_icd10_code_step
  \/ caller_resume

Spec == Init /\ [][Next]_vars

\* the extractor builds the mapper of utils.py (icd_extraction_pipeline.py 13, 30)
InitEval == Init /\ cls = "utils"

NextEval ==
  \/ evaluate_extraction_call
  \/ evaluate_extraction_step
  \/ evaluate_extraction_return
  \/ caller_resume

SpecEval == InitEval /\ [][NextEval]_vars

(***************************************************************************)
(* Repeated evaluation: a caller evaluates DataFrames of the shape         *)
(* extract_diagnoses returns, one after the other, and remembers the       *)
(* metrics of one of them.                                                 *)
(***************************************************************************)
\* longest DataFrame of the repeated evaluations
MaxBatch == 3

\* rows as extract_diagnoses leaves them (icd_extraction_pipeline.py
\* 100-119), with id_pasien standing for the identifying columns: a row
\* with two entities in its ground truth, one without ground truth, one
\* without entities
ResultRows ==
  { [id_pasien |-> "153284",
     entities_detected |-> List(<<"Pneumonia", "hypertension">>),
     diagnosis_ground_truth |-> Str("Community-acquired pneumonia, Hypertension stage 2"),
     icd10_codes |-> <<"J18.9", "I10">>],
    [id_pasien |-> "153285",
     entities_detected |-> List(<<"fever">>),
     diagnosis_ground_truth |-> None,
     icd10_codes |-> <<"R50.9">>],
    [id_pasien |-> "153286",
     entities_detected |-> None,
     diagnosis_ground_truth |-> Str("Status post-appendectomy, Overweight"),
     icd10_codes |-> <<>>] }

Batches == SeqsUpTo(ResultRows, MaxBatch)

evaluate_batch_call ==
  /\ Callable
  /\ \E df \in Batches : evaluate_extraction_enter(df)

\* the caller keeps the DataFrame and the metrics it got for it; the frame
\* of the call is dead, the next call sets every local it reads
caller_remembers_metrics ==
  /\ pc = "done"
  /\ fn = "evaluate_extraction"
  /\ ref_df' = results_df
  /\ ref_metrics' = ret
  /\ pc' = "idle"
  /\ fn' = "none"
  /\ ret' = None
  /\ results_df' = <<>>
  /\ total_records' = 0
  /\ ri' = 0
  /\ ei' = 0
  /\ ground_truth' = ""
  /\ UNCHANGED <<cls, mapping, arg, exc, rvars, matches, xvars, mvars, workers, lvars>>

NextBatch ==
  \/ evaluate_batch_call
  \/ evaluate_extraction_step
  \/ evaluate_extraction_return
  \/ caller_remembers_metrics
  \/ caller_resume

SpecBatch == InitEval /\ [][NextBatch]_vars

(***************************************************************************)
(* main and extract_diagnoses: one run of the program over an input file.  *)
(***************************************************************************)
\* most records of an input file
MaxRows == 2

\* the sample records of icd_extraction_pipeline.py
SampleRecords ==
  { [id_pasien |-> "153284",
     nm_pasien |-> "H. KURSANI Tn",
     jk |-> "L",
     umur_pasien |-> 71,
     id_kunjungan |-> "2025/01/01/000004",
     tgl_registrasi |-> "2025-01-01",
     nm_dokter |-> "dr. Resti Riyandina Mujiarto",
     rekam_medis_narasi |-> "Patient: H. KURSANI Tn, Age: 71 years old. Chief Complaint: nosebleed since 10 PM last night. Physical Examination: Blood pressure 180/110 mmHg. Assessment: Hypertensive emergency with epistaxis. Diagnosis: Essential hypertension, Epistaxis.",
     diagnosis_structured |-> "Essential (primary) hypertension, Epistaxis"],
    [id_pasien |-> "153285",
     nm_pasien |-> "Siti Nurhaliza",
     jk |-> "P",
     umur_pasien |-> 55,
     id_kunjungan |-> "2025/01/02/000005",
     tgl_registrasi |-> "2025-01-02",
     nm_dokter |-> "dr. Bambang Sutrisno",
     rekam_medis_narasi |-> "Patient: Siti Nurhaliza, Age: 55 years old. Chief Complaint: Shortness of breath for 1 day, cough. Physical Examination: SpO2 92%, bilateral lung crackles. Assessment: Community-acquired pneumonia. Diagnosis: Community-acquired pneumonia, Hypertension.",
     diagnosis_structured |-> "Community-acquired pneumonia, Hypertension stage 2, Type 2 diabetes mellitus"],
    [id_pasien |-> "153286",
     nm_pasien |-> "Budi Santoso",
     jk |-> "L",
     umur_pasien |-> 45,
     id_kunjungan |-> "2025/01/03/000006",
     tgl_registrasi |-> "2025-01-03",
     nm_dokter |-> "dr. Rina Widyaningsih",
     rekam_medis_narasi |-> "Patient: Budi Santoso, Age: 45 years old. Post-operative day 3 appendectomy. Physical Examination: Surgical wound healing well, no infection. Assessment: Recovery from surgery. Diagnosis: Status post-appendectomy, Overweight.",
     diagnosis_structured |-> "Status post-appendectomy, Overweight, Hypertension"] }

\* a record as pd.read_csv delivers it: the diagnosis cell holds a string,
\* or is empty
PatientRecords ==
  {[r EXCEPT !.diagnosis_structured = Str(@)] :
     r \in {s \in SampleRecords : s.id_pasien # "153285"}}
    \cup {[r EXCEPT !.diagnosis_structured = None] :
            r \in {s \in SampleRecords : s.id_pasien = "153286"}}

\* required_columns of validate_csv_structure
required_columns ==
  <<"id_pasien", "nm_pasien", "jk", "umur_pasien", "id_kunjungan",
    "tgl_registrasi", "nm_dokter", "rekam_medis_narasi", "diagnosis_structured">>

\* the headers of the input files: complete, complete with one more
\* column, one required column short, two required columns short
ColumnSets ==
  { ToSet(required_columns),
    ToSet(required_columns) \cup {"catatan"},
    ToSet(required_columns) \ {"diagnosis_structured"},
    ToSet(required_columns) \ {"jk", "nm_dokter"} }

\* the cells of record r under the header cols
RowOf(r, cols) == [c \in cols |-> IF c \in DOMAIN r THEN r[c] ELSE ""]

\* the DataFrames pd.read_csv can deliver
CsvFiles ==
  { [columns |-> cols, rows |-> [i \in DOMAIN rs |-> RowOf(rs[i], cols)]] :
      cols \in ColumnSets, rs \in SeqsUpTo(PatientRecords, MaxRows) }

\* what the fitted pipeline can deliver for one record in
\* {output_col}.result: nothing, no entity, entities with keys of the
\* mapping in them, an entity with none
NerResults ==
  { None, List(<<>>), List(<<"Essential hypertension", "Epistaxis">>),
    List(<<"Status post-appendectomy">>) }

\* how the process ended
SystemExit(n) == [tag |-> "SystemExit", code |-> n]

\* missing_columns of validate_csv_structure
missing_columns(d) ==
  {required_columns[i] : i \in {j \in 1..Len(required_columns) :
                                   required_columns[j] \notin d.columns}}

validate_csv_structure(d) == missing_columns(d) = {}

\* the first item from k on whose code the inner loop appends to cs, or
\* Len(mapping) + 1: the items before it are read and leave cs alone
next_append(cs, tl, k) ==
  LET H == {j \in k..Len(mapping) : map_terms_to_codes_body(cs, mapping[j], tl) # cs}
  IN  IF H = {} THEN Len(mapping) + 1
      ELSE CHOOSE j \in H : \A i \in H : j <= i

\* the inner loop of map_terms_to_codes over self.mapping.items(), from
\* item k on: the items up to the next append leave cs as it is
RECURSIVE map_terms_to_codes_items(_, _, _)
map_terms_to_codes_items(cs, tl, k) ==
  LET j == next_append(cs, tl, k)
  IN  IF j > Len(mapping) THEN cs
      ELSE map_terms_to_codes_items(map_terms_to_codes_body(cs, mapping[j], tl), tl, j + 1)

\* the outer loop of map_terms_to_codes over the terms still to go
RECURSIVE map_terms_to_codes_terms(_, _)
map_terms_to_codes_terms(cs, terms) ==
  IF terms = <<>> THEN cs
  ELSE map_terms_to_codes_terms(
         map_terms_to_codes_items(cs, term_lower_of(Head(terms)), 1), Tail(terms))

\* the list map_terms_to_codes returns for the list terms
map_terms_to_codes_of(terms) == map_terms_to_codes_terms(<<>>, terms)

\* the columns results.selectExpr keeps of the input
selected_columns ==
  <<"id_pasien", "nm_pasien", "jk", "umur_pasien", "id_kunjungan",
    "tgl_registrasi", "nm_dokter", "rekam_medis_narasi">>

\* faulty variant: the ground truth column is filled from the narrative
select_row_takes_narrative(row, entities) ==
  [c \in ToSet(selected_columns) \cup {"entities_detected", "diagnosis_ground_truth"} |->
     IF c = "entities_detected" THEN entities
     ELSE IF c = "diagnosis_ground_truth" THEN Str(row["rekam_medis_narasi"])
     ELSE row[c]]

\* one row of results_selected (lines 100-111)
select_row(row, entities) ==
  [c \in ToSet(selected_columns) \cup {"entities_detected", "diagnosis_ground_truth"} |->
     IF c = "entities_detected" THEN entities
     ELSE IF c = "diagnosis_ground_truth" THEN row["diagnosis_structured"]
     ELSE row[c]]

\* the lambda of lines 117-119
icd10_codes_of(x) == IF Truthy(x) THEN map_terms_to_codes_of(x.v) ELSE <<>>

\* row with the column col set to v
WithColumn(row, col, v) ==
  [c \in DOMAIN row \cup {col} |-> IF c = col THEN v ELSE row[c]]

\* extract_diagnoses is entered with the rows rs
extract_diagnoses_enter(rs) ==
  /\ fn' = "extract_diagnoses"
  /\ pc' = "transform"
  /\ spark_df' = rs
  /\ ner_result' = <<>>
  /\ results_pd' = <<>>
  /\ xi' = 0
  /\ ret' = None
  /\ exc' = "none"
  /\ UNCHANGED <<cls, mapping, arg, rvars, evars, ref_df, ref_metrics, lvars, workers, mvars>>

\* lines 92-97: the pipeline is built, fitted and applied; the extractor
\* is not part of this program, it delivers some entities for each row
extract_diagnoses_transform ==
  /\ fn = "extract_diagnoses"
  /\ pc = "transform"
  /\ \E ents \in [DOMAIN spark_df -> NerResults] : ner_result' = ents
  /\ pc' = "select"
  /\ UNCHANGED <<cls, mapping, fn, arg, ret, exc, rvars, evars, ref_df, ref_metrics, lvars, workers,
                 spark_df, results_pd, xi, mvars>>

\* lines 92-97: the call of the extractor fails
extract_diagnoses_transform_raises ==
  /\ fn = "extract_diagnoses"
  /\ pc = "transform"
  /\ pc' = "raised"
  /\ exc' = "Py4JJavaError"
  /\ UNCHANGED <<cls, mapping, fn, arg, ret, rvars, evars, ref_df, ref_metrics, lvars, workers,
                 xvars, mvars>>

\* lines 100-114: the columns are selected, the rows come to pandas
extract_diagnoses_select ==
  /\ fn = "extract_diagnoses"
  /\ pc = "select"
  /\ results_pd' = [i \in DOMAIN spark_df |-> select_row(spark_df[i], ner_result[i])]
  /\ xi' = 1
  /\ pc' = "apply"
  /\ UNCHANGED <<cls, mapping, fn, arg, ret, exc, rvars, evars, ref_df, ref_metrics, lvars, workers,
                 spark_df, ner_result, mvars>>

\* faulty variant: the lambda is  map_terms_to_codes(x)  without  if x
\* else []; a row whose entities are None raises the TypeError of the loop
\* over None
extract_diagnoses_apply_unguarded ==
  /\ fn = "extract_diagnoses"
  /\ pc = "apply"
  /\ IF xi <= Len(results_pd)
       THEN IF results_pd[xi]["entities_detected"] = None
              THEN /\ pc' = "raised"
                   /\ exc' = "TypeError"
                   /\ UNCHANGED <<results_pd, xi, ret>>
              ELSE /\ results_pd' =
                        [results_pd EXCEPT ![xi] =
                           WithColumn(@, "icd10_codes",
                                      map_terms_to_codes_of(@["entities_detected"].v))]
                   /\ xi' = xi + 1
                   /\ UNCHANGED <<pc, ret, exc>>
       ELSE /\ ret' = results_pd
            /\ pc' = "done"
            /\ UNCHANGED <<results_pd, xi, exc>>
  /\ UNCHANGED <<cls, mapping, fn, arg, rvars, evars, ref_df, ref_metrics, lvars, workers,
                 spark_df, ner_result, mvars>>

\* lines 117-121: the lambda is applied to the rows one after the other,
\* the column icd10_codes is set, results_pd is returned
extract_diagnoses_apply ==
  /\ fn = "extract_diagnoses"
  /\ pc = "apply"
  /\ IF xi <= Len(results_pd)
       THEN /\ results_pd' =
                 [results_pd EXCEPT ![xi] =
                    WithColumn(@, "icd10_codes", icd10_codes_of(@["entities_detected"]))]
            /\ xi' = xi + 1
            /\ UNCHANGED <<pc, ret>>
       ELSE /\ ret' = results_pd
            /\ pc' = "done"
            /\ UNCHANGED <<results_pd, xi>>
  /\ UNCHANGED <<cls, mapping, fn, arg, exc, rvars, evars, ref_df, ref_metrics, lvars, workers,
                 spark_df, ner_result, mvars>>

(***************************************************************************)
(* setup_logging (utils.py 11-44) and the logger "icd_extraction", which   *)
(* logging.getLogger keeps for the life of the process.                    *)
(***************************************************************************)
\* the names getattr(logging, ...) finds a level under
LevelNames == {"DEBUG", "INFO", "WARNING", "ERROR", "CRITICAL"}

\* the values of the argument log_level: the four of the docstring, one in
\* lower case, one that is no level
LogLevels == {"DEBUG", "INFO", "WARNING", "ERROR", "debug", "VERBOSE"}

\* the values of the argument log_file
LogFiles == {None, Str(""), Str("run.log"), Str("logs/extraction.log")}

StreamHandler == [type |-> "StreamHandler"]
FileHandler(f) == [type |-> "FileHandler", file |-> f]

\* the handlers setup_logging leaves when it returns (lines 26-42)
handlers_of(f) ==
  IF f # None /\ f.v # "" THEN <<StreamHandler, FileHandler(f.v)>> ELSE <<StreamHandler>>

\* lines 22-23: the logger is fetched and its level set; a name that is no
\* attribute of logging raises AttributeError, before the handlers are
\* touched
setup_logging_call ==
  /\ lpc \in {"idle", "returned", "raised"}
  /\ \E lv \in LogLevels, f \in LogFiles :
       /\ log_level' = lv
       /\ log_file' = f
       /\ IF upper(lv) \in LevelNames
            THEN /\ logger_level' = upper(lv)
                 /\ lpc' = "clear"
            ELSE /\ lpc' = "raised"
                 /\ UNCHANGED logger_level
  /\ UNCHANGED <<cls, mapping, pc, fn, arg, ret, exc, rvars, evars, ref_df, ref_metrics,
                 xvars, mvars, workers, logger_handlers>>

\* faulty variant: the handlers of the earlier calls are kept
setup_logging_clear_skipped ==
  /\ lpc = "clear"
  /\ lpc' = "console"
  /\ UNCHANGED <<cls, mapping, pc, fn, arg, ret, exc, rvars, evars, ref_df, ref_metrics,
                 xvars, mvars, workers, log_level, log_file, logger_level, logger_handlers>>

\* lines 26-27
setup_logging_clear ==
  /\ lpc = "clear"
  /\ logger_handlers' = <<>>
  /\ lpc' = "console"
  /\ UNCHANGED <<cls, mapping, pc, fn, arg, ret, exc, rvars, evars, ref_df, ref_metrics,
                 xvars, mvars, workers, log_level, log_file, logger_level>>

\* lines 29-36
setup_logging_console ==
  /\ lpc = "console"
  /\ logger_handlers' = Append(logger_handlers, StreamHandler)
  /\ lpc' = "file"
  /\ UNCHANGED <<cls, mapping, pc, fn, arg, ret, exc, rvars, evars, ref_df, ref_metrics,
                 xvars, mvars, workers, log_level, log_file, logger_level>>

\* lines 39-44: the file handler is added if log_file is given, the logger
\* is returned
setup_logging_file ==
  /\ lpc = "file"
  /\ logger_handlers' =
       IF log_file # None /\ log_file.v # ""
         THEN Append(logger_handlers, FileHandler(log_file.v))
         ELSE logger_handlers
  /\ lpc' = "returned"
  /\ UNCHANGED <<cls, mapping, pc, fn, arg, ret, exc, rvars, evars, ref_df, ref_metrics,
                 xvars, mvars, workers, log_level, log_file, logger_level>>

\* line 40: logging.FileHandler cannot open the file and raises OSError
setup_logging_file_raises ==
  /\ lpc = "file"
  /\ log_file # None /\ log_file.v # ""
  /\ lpc' = "raised"
  /\ UNCHANGED <<cls, mapping, pc, fn, arg, ret, exc, rvars, evars, ref_df, ref_metrics,
                 xvars, mvars, workers, log_level, log_file, logger_level, logger_handlers>>

NextLogging ==
  \/ setup_logging_call
  \/ setup_logging_clear
  \/ setup_logging_console
  \/ setup_logging_file
  \/ setup_logging_file_raises

SpecLogging == InitEval /\ [][NextLogging]_vars

\* sys.exit(n) after the lines msgs were logged
main_exit(n, msgs) ==
  /\ log' = log \o msgs
  /\ mpc' = "exited"
  /\ exit_status' = SystemExit(n)

\* faulty variant: the handler logs the error and does not exit, so main
\* goes on after the try statement, to line 93
main_handler_without_exit(msgs) ==
  /\ log' = log \o msgs \o <<"ERROR Error during execution",
                               "INFO ICD Diagnosis Extraction completed successfully!">>
  /\ mpc' = "returned"
  /\ exit_status' = SystemExit(0)

\* the handler of lines 89-91
main_handler(msgs) == main_exit(1, msgs \o <<"ERROR Error during execution">>)

\* the frame of the call main made is gone
main_frame_gone ==
  /\ pc' = "idle"
  /\ fn' = "none"
  /\ ret' = None
  /\ exc' = "none"

\* lines 35-44: logging is set up (setup_logging with the default level
\* and no log file), the input file is looked for, the output directory is
\* made
main_start ==
  /\ mpc = "start"
  /\ Callable
  /\ \E exists \in BOOLEAN :
       IF exists
         THEN /\ log' = log \o <<"INFO Starting Automated ICD Diagnosis Extraction...">>
              /\ mpc' = "try"
              /\ UNCHANGED exit_status
         ELSE main_exit(1, <<"INFO Starting Automated ICD Diagnosis Extraction...",
                             "ERROR Input file does not exist">>)
  /\ log_level' = "INFO"
  /\ log_file' = None
  /\ logger_level' = upper("INFO")
  /\ logger_handlers' = handlers_of(None)
  /\ lpc' = "returned"
  /\ UNCHANGED <<cls, mapping, pc, fn, arg, ret, exc, rvars, evars, ref_df, ref_metrics, workers,
                 xvars, main_df, results, eval_metrics, out_file>>

\* lines 48-53: the extractor is made, the input file is read
main_load ==
  /\ mpc = "try"
  /\ \E d \in CsvFiles : main_df' = d
  /\ log' = log \o <<"INFO Loading data from">>
  /\ mpc' = "loaded"
  /\ UNCHANGED <<cls, mapping, pc, fn, arg, ret, exc, rvars, evars, ref_df, ref_metrics, lvars, workers,
                 xvars, results, eval_metrics, out_file, exit_status>>

\* a call into Spark, pandas or the file system raises: making the
\* extractor or reading the file (48-53), createDataFrame (61), to_csv (82)
main_external_raises ==
  /\ mpc \in {"try", "validated", "printed"}
  /\ main_handler(<<>>)
  /\ UNCHANGED <<cls, mapping, pc, fn, arg, ret, exc, rvars, evars, ref_df, ref_metrics, lvars, workers,
                 xvars, main_df, results, eval_metrics, out_file>>

\* faulty variant: the failed validation is logged, the run goes on
main_validate_goes_on ==
  /\ mpc = "loaded"
  /\ IF validate_csv_structure(main_df)
       THEN UNCHANGED log
       ELSE log' = log \o <<"Missing required columns", "ERROR CSV structure validation failed">>
  /\ mpc' = "validated"
  /\ UNCHANGED <<cls, mapping, pc, fn, arg, ret, exc, rvars, evars, ref_df, ref_metrics, lvars, workers,
                 xvars, main_df, results, eval_metrics, out_file, exit_status>>

\* lines 56-58, with the print of validate_csv_structure
main_validate ==
  /\ mpc = "loaded"
  /\ IF validate_csv_structure(main_df)
       THEN /\ mpc' = "validated"
            /\ UNCHANGED <<log, exit_status>>
       ELSE main_exit(1, <<"Missing required columns",
                           "ERROR CSV structure validation failed">>)
  /\ UNCHANGED <<cls, mapping, pc, fn, arg, ret, exc, rvars, evars, ref_df, ref_metrics, lvars, workers,
                 xvars, main_df, results, eval_metrics, out_file>>

\* lines 61-64
main_createDataFrame ==
  /\ mpc = "validated"
  /\ log' = log \o <<"INFO Extracting diagnoses...">>
  /\ mpc' = "converted"
  /\ UNCHANGED <<cls, mapping, pc, fn, arg, ret, exc, rvars, evars, ref_df, ref_metrics, lvars, workers,
                 xvars, main_df, results, eval_metrics, out_file, exit_status>>

\* line 65, the call
main_call_extract ==
  /\ mpc = "converted"
  /\ Callable
  /\ extract_diagnoses_enter(main_df.rows)

\* lines 65-68: extract_diagnoses has returned
main_after_extract ==
  /\ mpc = "converted"
  /\ pc = "done"
  /\ fn = "extract_diagnoses"
  /\ results' = ret
  /\ log' = log \o <<"INFO Evaluating extraction results...">>
  /\ mpc' = "extracted"
  /\ main_frame_gone
  /\ UNCHANGED <<cls, mapping, arg, rvars, evars, ref_df, ref_metrics, lvars, workers,
                 xvars, main_df, eval_metrics, out_file, exit_status>>

\* line 69, the call
main_call_evaluate ==
  /\ mpc = "extracted"
  /\ Callable
  /\ evaluate_extraction_enter(results)

\* the lines main prints of the metrics m (72-76), up to the first key
\* that m does not have
metrics_lines(m) ==
  <<"Extraction Results:">>
    \o (IF "accuracy" \in DOMAIN m THEN <<"Accuracy">> ELSE <<>>)
    \o (IF {"accuracy", "total_records"} \subseteq DOMAIN m
          THEN <<"Total Records Processed">> ELSE <<>>)
    \o (IF {"accuracy", "total_records", "correctly_matched_records"} \subseteq DOMAIN m
          THEN <<"Correctly Matched Records">> ELSE <<>>)
    \o (IF {"accuracy", "total_records", "correctly_matched_records",
            "incorrectly_matched_records"} \subseteq DOMAIN m
          THEN <<"Incorrectly Matched Records">> ELSE <<>>)

\* lines 69-76: evaluate_extraction has returned, the metrics are printed;
\* a key that is not there raises KeyError
main_print_metrics ==
  /\ mpc = "extracted"
  /\ pc = "done"
  /\ fn = "evaluate_extraction"
  /\ eval_metrics' = ret
  /\ IF Len(metrics_lines(ret)) = 5
       THEN /\ log' = log \o metrics_lines(ret)
            /\ mpc' = "printed"
            /\ UNCHANGED exit_status
       ELSE main_handler(metrics_lines(ret))
  /\ main_frame_gone
  /\ UNCHANGED <<cls, mapping, arg, rvars, evars, ref_df, ref_metrics, lvars, workers,
                 xvars, main_df, results, out_file>>

\* faulty variant: when extract_diagnoses has raised, main calls it again
main_except_retries ==
  /\ mpc \in {"converted", "extracted"}
  /\ pc = "raised"
  /\ IF fn = "extract_diagnoses"
       THEN UNCHANGED <<mpc, log, exit_status>>
       ELSE main_handler(<<>>)
  /\ main_frame_gone
  /\ UNCHANGED <<cls, mapping, arg, rvars, evars, ref_df, ref_metrics, lvars, workers,
                 xvars, main_df, results, eval_metrics, out_file>>

\* lines 89-91: the call main made has raised
main_except ==
  /\ mpc \in {"converted", "extracted"}
  /\ pc = "raised"
  /\ main_handler(<<>>)
  /\ main_frame_gone
  /\ UNCHANGED <<cls, mapping, arg, rvars, evars, ref_df, ref_metrics, lvars, workers,
                 xvars, main_df, results, eval_metrics, out_file>>

\* lines 79-87: the results file is written, a sample is printed
main_save ==
  /\ mpc = "printed"
  /\ out_file' = results
  /\ log' = log \o <<"Results saved to", "Sample Results:">>
  /\ mpc' = "saved"
  /\ UNCHANGED <<cls, mapping, pc, fn, arg, ret, exc, rvars, evars, ref_df, ref_metrics, lvars, workers,
                 xvars, main_df, results, eval_metrics, exit_status>>

\* line 93, and the return of main
main_finish ==
  /\ mpc = "saved"
  /\ log' = log \o <<"INFO ICD Diagnosis Extraction completed successfully!">>
  /\ mpc' = "returned"
  /\ exit_status' = SystemExit(0)
  /\ UNCHANGED <<cls, mapping, pc, fn, arg, ret, exc, rvars, evars, ref_df, ref_metrics, lvars, workers,
                 xvars, main_df, results, eval_metrics, out_file>>

NextMain ==
  \/ main_start
  \/ main_load
  \/ main_external_raises
  \/ main_validate
  \/ main_createDataFrame
  \/ main_call_extract
  \/ extract_diagnoses_transform
  \/ extract_diagnoses_transform_raises
  \/ extract_diagnoses_select
  \/ extract_diagnoses_apply
  \/ main_after_extract
  \/ main_call_evaluate
  \/ evaluate_extraction_step
  \/ evaluate_extraction_return
  \/ main_print_metrics
  \/ main_except
  \/ main_save
  \/ main_finish

SpecMain == InitEval /\ [][NextMain]_vars

(***************************************************************************)
(* The resolution of several records at the same time: every worker runs   *)
(* the lambda of extract_diagnoses on the entities of its own record, all  *)
(* read the one mapping, none takes a lock.                                *)
(***************************************************************************)
\* faulty variant: the list codes is kept in one place for all the calls
codes_owner_shared(w) == 1

\* the frame that holds the list codes of the call worker w makes: codes
\* is a local of map_terms_to_codes
codes_owner(w) == w

\* the entities of the records the workers are given
WorkerEntities ==
  NerResults \cup { List(<<"Pneumonia">>),
                    List(<<"Pneumonia", "Community-acquired pneumonia", "fever">>) }

\* worker w is given a record with the entities x and calls the lambda:
\* without entities it returns [], else map_terms_to_codes starts
worker_call(w) ==
  /\ workers[w].pc = "idle"
  /\ \E x \in WorkerEntities :
       IF Truthy(x)
         THEN workers' = [workers EXCEPT
                            ![w] = [pc |-> "scan", x |-> x, ti |-> 1, ki |-> 1,
                                    term_lower |-> term_lower_of(x.v[1]),
                                    codes |-> @.codes, ret |-> None],
                            ![codes_owner(w)].codes = <<>>]
         ELSE workers' = [workers EXCEPT
                            ![w] = [@ EXCEPT !.pc = "done", !.x = x, !.ret = <<>>]]
  /\ UNCHANGED <<cls, mapping, pc, fn, arg, ret, exc, rvars, evars, ref_df, ref_metrics, lvars,
                 xvars, mvars>>

\* worker w runs the inner loop up to the next append, goes to the next
\* term when the mapping is through, and returns after the last term
worker_step(w) ==
  /\ workers[w].pc = "scan"
  /\ LET f  == workers[w]
         cs == workers[codes_owner(w)].codes
         j  == next_append(cs, f.term_lower, f.ki)
     IN  IF j <= Len(mapping)
           THEN workers' = [workers EXCEPT
                              ![w].ki = j + 1,
                              ![codes_owner(w)].codes =
                                 map_terms_to_codes_body(cs, mapping[j], f.term_lower)]
         ELSE IF f.ti < Len(f.x.v)
           THEN workers' = [workers EXCEPT
                              ![w].ti = f.ti + 1,
                              ![w].ki = 1,
                              ![w].term_lower = term_lower_of(f.x.v[f.ti + 1])]
         ELSE workers' = [workers EXCEPT ![w].pc = "done", ![w].ret = cs]
  /\ UNCHANGED <<cls, mapping, pc, fn, arg, ret, exc, rvars, evars, ref_df, ref_metrics, lvars,
                 xvars, mvars>>

NextWorkers == \E w \in Workers : worker_call(w) \/ worker_step(w)

SpecWorkers == InitEval /\ [][NextWorkers]_vars

(***************************************************************************)
(* Any sequence of calls of the four functions that read the mapping, on   *)
(* one mapper.                                                             *)
(***************************************************************************)
\* the rows of the DataFrames extract_diagnoses can be handed
ExtractInputs == {d.rows : d \in {c \in CsvFiles : validate_csv_structure(c)}}

extract_diagnoses_call ==
  /\ Callable
  /\ \E rs \in ExtractInputs : extract_diagnoses_enter(rs)

\* the caller has taken the DataFrame extract_diagnoses returned, or has
\* caught its exception: the frame of the call is gone
extract_diagnoses_resume ==
  /\ fn = "extract_diagnoses"
  /\ pc \in {"done", "raised"}
  /\ main_frame_gone
  /\ spark_df' = <<>>
  /\ ner_result' = <<>>
  /\ results_pd' = <<>>
  /\ xi' = 0
  /\ UNCHANGED <<cls, mapping, arg, rvars, evars, ref_df, ref_metrics, lvars, workers, mvars>>

\* the caller of one of the other functions goes on
resolver_resume ==
  /\ fn # "extract_diagnoses"
  /\ caller_resume

NextCalls ==
  \/ map_terms_to_codes_call
  \/ map_terms_to_codes_step
  \/ map_terms_to_codes_return
  \/ get_icd10_code_call
  \/ get_icd10_code_step
  \/ evaluate_extraction_call
  \/ evaluate_extraction_step
  \/ evaluate_extraction_return
  \/ resolver_resume
  \/ extract_diagnoses_call
  \/ extract_diagnoses_transform
  \/ extract_diagnoses_transform_raises
  \/ extract_diagnoses_select
  \/ extract_diagnoses_apply
  \/ extract_diagnoses_resume

SpecCalls == InitEval /\ [][NextCalls]_vars

(***************************************************************************)
(* Single terms looked up in the mapper of either module.                  *)
(***************************************************************************)
\* map_terms_to_codes is called with a list of one term
map_terms_to_codes_call_one ==
  /\ Callable
  /\ \E term \in Terms :
       /\ fn' = "map_terms_to_codes"
       /\ arg' = List(<<term>>)
       /\ codes' = <<>>
       /\ ret' = None
       /\ EnterLoop(<<term>>)
       /\ UNCHANGED <<cvars, cls, mapping, evars>>

NextLookup ==
  \/ map_terms_to_codes_call_one
  \/ map_terms_to_codes_step
  \/ map_terms_to_codes_return
  \/ get_icd10_code_call
  \/ get_icd10_code_step
  \/ caller_resume

SpecLookup == Init /\ [][NextLookup]_vars

(***************************************************************************)
(* The keys of the mapping looked up in the mapper of utils.py.            *)
(***************************************************************************)
\* get_icd10_code is called with a key of the mapping
get_icd10_code_call_key ==
  /\ Callable
  /\ cls = "utils"
  /\ \E k \in 1..Len(mapping) :
       /\ fn' = "get_icd10_code"
       /\ arg' = Str(mapping[k].key)
       /\ codes' = <<>>
       /\ ret' = None
       /\ pc' = "scan"
       /\ ti' = 1
       /\ ki' = 1
       /\ term_lower' = term_lower_of(mapping[k].key)
       /\ exc' = "none"
       /\ UNCHANGED <<cvars, cls, mapping, evars>>

NextKeys ==
  \/ get_icd10_code_call_key
  \/ get_icd10_code_step
  \/ caller_resume

SpecKeys == InitEval /\ [][NextKeys]_vars

(***************************************************************************)
(* calculate_simple_accuracy of utils.py.                                  *)
(***************************************************************************)
\* most entities in a predicted list
MaxPredicted == 2

\* the entities of the predicted lists: an empty one, one outside the
\* ground truths, two in them (in another case)
PredictedEntities == {"", "rash", "PNEUMONIA", "Hypertension"}

PredictedLists == {None} \cup {List(l) : l \in SeqsUpTo(PredictedEntities, MaxPredicted)}

AccuracyGroundTruths ==
  { None, Str(""), Str("Community-acquired pneumonia, Hypertension stage 2"),
    Str("HYPERTENSION") }

\* the two arguments of a call
Args(p, g) == [tag |-> "Args", predicted |-> p, ground_truth |-> g]

\* not ground_truth:  true for None and for the empty string
Falsy(g) == g = None \/ g.v = ""

\* faulty variant: the ground truth is searched for in the entity
predicted_matches_reversed(entity, gt) == StrIn(gt, lower(entity))

\* line 115: entity.lower() in ground_truth_lower
predicted_matches(entity, gt) == StrIn(lower(entity), gt)

\* lines 110-114: the early return, or the lowercased ground truth and
\* the sum of line 115 at its first entity
calculate_simple_accuracy_call ==
  /\ Callable
  /\ \E p \in PredictedLists, g \in AccuracyGroundTruths :
       /\ fn' = "calculate_simple_accuracy"
       /\ arg' = Args(p, g)
       /\ exc' = "none"
       /\ matches' = 0
       /\ IF ~Truthy(p) \/ Falsy(g)
            THEN /\ ret' = Frac(0, 1)
                 /\ pc' = "done"
                 /\ ei' = 0
                 /\ ground_truth' = ""
            ELSE /\ ret' = None
                 /\ pc' = "count"
                 /\ ei' = 1
                 /\ ground_truth' = lower(g.v)
       /\ UNCHANGED <<cvars, cls, mapping, rvars, results_df, total_records, ri>>

\* line 115: one entity of the sum
calculate_simple_accuracy_step ==
  /\ pc = "count"
  /\ fn = "calculate_simple_accuracy"
  /\ ei <= Len(arg.predicted.v)
  /\ matches' = IF predicted_matches(arg.predicted.v[ei], ground_truth)
                  THEN matches + 1
                  ELSE matches
  /\ ei' = ei + 1
  /\ UNCHANGED <<cvars, cls, mapping, pc, fn, arg, ret, exc, rvars,
                 results_df, total_records, ri, ground_truth>>

\* line 116: matches / len(predicted) if predicted else 0.0
calculate_simple_accuracy_return ==
  /\ pc = "count"
  /\ fn = "calculate_simple_accuracy"
  /\ ei > Len(arg.predicted.v)
  /\ LET q == IF Truthy(arg.predicted)
                THEN TrueDiv(matches, Len(arg.predicted.v))
                ELSE Frac(0, 1)
     IN  IF q = ZeroDivision
           THEN /\ pc' = "raised"
                /\ exc' = "ZeroDivisionError"
                /\ UNCHANGED ret
           ELSE /\ pc' = "done"
                /\ ret' = q
                /\ UNCHANGED exc
  /\ UNCHANGED <<cvars, cls, mapping, fn, arg, rvars, evars>>

NextAccuracy ==
  \/ calculate_simple_accuracy_call
  \/ calculate_simple_accuracy_step
  \/ calculate_simple_accuracy_return
  \/ caller_resume

SpecAccuracy == InitEval /\ [][NextAccuracy]_vars

(***************************************************************************)
(* Properties of the resolvers, checked under Spec.                        *)
(***************************************************************************)
Resolvers == {"map_terms_to_codes", "map_diagnosis_to_icd10"}

NoDuplicates(l) == \A i, j \in 1..Len(l) : l[i] = l[j] => i = j

\* the items of the table whose key occurs in the lowercased term
Hits(term) ==
  LET tl == lower(term) IN {k \in 1..Len(mapping) : StrIn(mapping[k].key, tl)}

\* some item with code c has its key in the lowercased term
Produces(term, c) ==
  LET tl == lower(term) IN
    \E k \in 1..Len(mapping) : mapping[k].code = c /\ StrIn(mapping[k].key, tl)

\* the position of the pair (term i, item k) in the scan of a list
PairPos(i, k) == (i - 1) * Len(mapping) + k

\* the pairs of the scan of l that produce code c
Producers(l, c) ==
  {PairPos(i, k) : i \in 1..Len(l), k \in 1..Len(mapping)} \cap
  UNION {{PairPos(i, k) : k \in {h \in Hits(l[i]) : mapping[h].code = c}} : i \in 1..Len(l)}

Min(S) == CHOOSE x \in S : \A y \in S : x <= y

\* C1: the code list of a resolver holds no code twice, neither while the
\* scan is under way nor in the value returned, whatever terms repeat or
\* overlap in the input.
C1_NoDuplicateCodes ==
  fn \in Resolvers =>
    /\ NoDuplicates(codes)
    /\ pc = "done" => NoDuplicates(ret.v)

\* a repeated term that holds two keys of the same code has been resolved
C1_Witness ==
  /\ fn = "map_terms_to_codes"
  /\ pc = "done"
  /\ arg = List(<<"Community-acquired pneumonia", "Community-acquired pneumonia">>)
  /\ ret = List(<<"J18.9">>)

\* C2: every code map_terms_to_codes has collected or returned is the code
\* of some item whose key occurs in the lowercased form of some input term.
C2_Soundness ==
  (fn = "map_terms_to_codes" /\ pc \in {"scan", "done"}) =>
    \A c \in ToSet(codes) \cup (IF pc = "done" THEN ToSet(ret.v) ELSE {}) :
      \E i \in 1..Len(arg.v) : Produces(arg.v[i], c)

\* codes were returned for a list that also holds terms with no key in them
C2_Witness ==
  /\ fn = "map_terms_to_codes"
  /\ pc = "done"
  /\ arg = List(<<"", "Epistaxis">>)
  /\ ret = List(<<"R04.0">>)

\* C3: map_terms_to_codes returns the code of every item whose key occurs
\* in the lowercased form of some input term; the scan goes on after a hit,
\* so one term can yield several codes.
C3_Completeness ==
  (fn = "map_terms_to_codes" /\ pc = "done") =>
    \A i \in 1..Len(arg.v) : \A k \in Hits(arg.v[i]) :
      mapping[k].code \in ToSet(ret.v)

\* "heatstroke" gave I63 and one term gave two codes
C3_Witness ==
  /\ fn = "map_terms_to_codes"
  /\ pc = "done"
  /\ arg = List(<<"heatstroke", "SECONDARY HYPERTENSION">>)
  /\ ret = List(<<"I63", "I10", "I15">>)

\* C4: given None or the empty list, every resolver returns the empty
\* list and does not raise.
C4_NoneOrEmptyYieldsEmpty ==
  (fn \in Resolvers /\ pc \in {"done", "raised"} /\ arg \in {None, List(<<>>)}) =>
    (pc = "done" /\ ret = List(<<>>))

\* C5: every resolver returns its codes in the order of their first
\* occurrence in the scan (terms in input order, items in table order).
C5_FirstOccurrenceOrder ==
  (fn \in Resolvers /\ pc = "done" /\ arg # None) =>
    \A p, q \in 1..Len(ret.v) :
      p < q <=> Min(Producers(arg.v, ret.v[p])) < Min(Producers(arg.v, ret.v[q]))

\* C6: get_icd10_code returns the code of the first item, in table order,
\* whose key occurs in the lowercased term, and None exactly when no key
\* occurs in it.
C6_FirstMatchWins ==
  (fn = "get_icd10_code" /\ pc = "done") =>
    IF Hits(arg.v) = {}
      THEN ret = None
      ELSE ret = Str(mapping[Min(Hits(arg.v))].code)

\* a term that holds the keys of items 1 and 3 got the code of item 1
C6_Witness ==
  /\ fn = "get_icd10_code"
  /\ pc = "done"
  /\ arg = Str("SECONDARY HYPERTENSION")
  /\ Hits(arg.v) = {1, 3}
  /\ ret = Str("I10")

(***************************************************************************)
(* Properties of evaluate_extraction, checked under SpecEval.              *)
(***************************************************************************)
\* the lowercased ground truth of a row, "" when it is absent
GroundTruthText(row) ==
  IF row.diagnosis_ground_truth = None THEN "" ELSE lower(row.diagnosis_ground_truth.v)

\* the entities of a row, none when the list is absent
EntitiesOf(row) ==
  IF row.entities_detected = None THEN <<>> ELSE row.entities_detected.v

\* the row has a ground truth string, and it is not empty
HasGroundTruth(row) == row.diagnosis_ground_truth \notin {None, Str("")}

\* some entity of the row, lowercased, occurs in its lowercased ground truth
\* (rows without a ground truth string have nothing to occur in)
AnyEntityInGroundTruth(row) ==
  /\ HasGroundTruth(row)
  /\ \E j \in 1..Len(EntitiesOf(row)) :
       StrIn(lower(EntitiesOf(row)[j]), GroundTruthText(row))

\* the same, for the entities that are not the empty string
NonEmptyEntityInGroundTruth(row) ==
  \E j \in 1..Len(EntitiesOf(row)) :
    /\ EntitiesOf(row)[j] # ""
    /\ StrIn(lower(EntitiesOf(row)[j]), GroundTruthText(row))

Evaluating == fn = "evaluate_extraction" /\ pc = "scan"
Evaluated == fn = "evaluate_extraction" /\ pc = "done"

\* C7 (as stated): a record is counted, once, exactly when one of its
\* entities, lowercased, occurs in its lowercased ground truth: after the
\* rows before ri, matches is the number of such rows.
C7_MatchedIffAnyEntityInGroundTruth ==
  Evaluating =>
    matches = Cardinality({i \in 1..(ri - 1) : AnyEntityInGroundTruth(results_df[i])})

\* C7 (amended): a record is counted, once, exactly when one of its
\* non-empty entities, lowercased, occurs in its lowercased ground truth.
C7_MatchedIffNonEmptyEntityInGroundTruth ==
  Evaluating =>
    matches = Cardinality({i \in 1..(ri - 1) : NonEmptyEntityInGroundTruth(results_df[i])})

\* a row with three entities, two of them in the ground truth, counted once
C7_Witness ==
  /\ Evaluating
  /\ ri = 2
  /\ results_df[1] =
       [entities_detected |-> List(<<"fever", "Pneumonia", "hypertension">>),
        diagnosis_ground_truth |-> Str("Community-acquired pneumonia, Hypertension stage 2")]
  /\ matches = 1

\* C8: while the loop stands at a row whose ground truth is absent or the
\* empty string, no step counts a match and no step raises.
C8_AbsentGroundTruthUnmatched ==
  [][ ( /\ Evaluating
        /\ ri <= total_records
        /\ ~HasGroundTruth(results_df[ri]) )
      => (matches' = matches /\ pc' # "raised") ]_vars

\* the row (["fever"], None) has been passed and nothing was counted
C8_Witness ==
  /\ Evaluating
  /\ ri = 2
  /\ results_df[1] =
       [entities_detected |-> List(<<"fever">>), diagnosis_ground_truth |-> None]
  /\ matches = 0

\* C9: evaluate_extraction never divides by zero, and for the empty
\* DataFrame it returns accuracy 0.0 and total_records 0.
C9_EmptyBatch ==
  fn = "evaluate_extraction" =>
    /\ exc # "ZeroDivisionError"
    /\ (pc \in {"done", "raised"} /\ results_df = <<>>) =>
         /\ pc = "done"
         /\ ret.accuracy = Frac(0, 1)
         /\ ret.total_records = 0

C9_Witness == Evaluated /\ results_df = <<>> /\ ret.total_records = 0

\* C10: for a non-empty DataFrame the metrics are total = number of rows,
\* correctly matched = number of rows with a (non-empty) entity in the
\* ground truth, incorrectly matched = total - correctly matched, accuracy
\* = correctly matched * 100 / total; so 0 <= correctly matched <= total
\* and 0 <= accuracy <= 100.
C10_Metrics ==
  (Evaluated /\ Len(results_df) > 0) =>
    LET n == Len(results_df)
        m == Cardinality({i \in 1..n : NonEmptyEntityInGroundTruth(results_df[i])})
    IN  /\ ret.total_records = n
        /\ ret.correctly_matched_records = m
        /\ ret.incorrectly_matched_records = n - m
        /\ ret.accuracy.den > 0
        /\ ret.accuracy.num * n = m * 100 * ret.accuracy.den
        /\ 0 <= ret.correctly_matched_records
        /\ ret.correctly_matched_records <= ret.total_records
        /\ 0 <= ret.accuracy.num
        /\ ret.accuracy.num <= 100 * ret.accuracy.den

\* two rows, one of them matched: accuracy 50
C10_Witness ==
  /\ Evaluated
  /\ Len(results_df) = 2
  /\ ret.correctly_matched_records = 1
  /\ ret.incorrectly_matched_records = 1
  /\ ret.accuracy.num = 50 * ret.accuracy.den

MetricsKeys ==
  {"accuracy", "total_records", "correctly_matched_records", "incorrectly_matched_records"}

\* C11: the metrics evaluate_extraction returns hold all four fields, for
\* every DataFrame, the empty one included.
C11_AllFourFields == Evaluated => DOMAIN ret = MetricsKeys

(***************************************************************************)
(* Properties of evaluate_extraction on batches, checked under SpecBatch.  *)
(***************************************************************************)
\* the number of rows of df with a non-empty entity in the ground truth
MatchedRows(df) ==
  Cardinality({i \in 1..Len(df) : NonEmptyEntityInGroundTruth(df[i])})

\* n / d rounded to the nearest hundredth, in hundredths
RoundedHundredths(n, d) == (2 * 100 * n + d) \div (2 * d)

\* C12: the accuracy returned is the percentage rounded to 2 decimals (3
\* rows of which 2 are matched: 66.67).
C12_AccuracyRounded ==
  (Evaluated /\ Len(results_df) > 0) =>
    ret.accuracy.num * 100 =
      RoundedHundredths(MatchedRows(results_df) * 100, Len(results_df)) * ret.accuracy.den

\* C13: evaluating a DataFrame that was evaluated before, whatever was
\* evaluated in between, returns the metrics the earlier evaluation returned.
C13_Idempotent ==
  (Evaluated /\ ref_metrics # None /\ results_df = ref_df) => ret = ref_metrics

\* a 3-row DataFrame with 2 matched rows was evaluated a second time
C13_Witness ==
  /\ Evaluated
  /\ ref_metrics # None
  /\ results_df = ref_df
  /\ Len(results_df) = 3
  /\ ret.correctly_matched_records = 2

\* C14: no step of evaluate_extraction, from its first statement to its
\* return, changes a row of the DataFrame it was given or the mapping table.
C14_ReadOnly ==
  [][ Evaluating => (results_df' = results_df /\ mapping' = mapping) ]_vars

\* an evaluation of three rows with entities, ground truth and codes returned
C14_Witness ==
  /\ Evaluated
  /\ Len(results_df) = 3
  /\ results_df[1].icd10_codes = <<"J18.9", "I10">>
  /\ results_df[2].diagnosis_ground_truth = None
  /\ mapping = utils_ICD10Mapper_mapping

(***************************************************************************)
(* Scenario 1 of the resolver, checked under Spec.                         *)
(***************************************************************************)
\* C15: with the table of the repository, which holds "essential (primary)
\* hypertension" -> I10 and "epistaxis" -> R04.0, the terms
\* ["Essential hypertension", "Epistaxis"] resolve to exactly {I10, R04.0}.
C15_Scenario1 ==
  /\ \E k \in 1..Len(mapping) :
       mapping[k] = [key |-> "essential (primary) hypertension", code |-> "I10"]
  /\ \E k \in 1..Len(mapping) : mapping[k] = [key |-> "epistaxis", code |-> "R04.0"]
  /\ (/\ fn = "map_terms_to_codes"
      /\ pc = "done"
      /\ arg = List(<<"Essential hypertension", "Epistaxis">>))
     => ToSet(ret.v) = {"I10", "R04.0"}

C15_Witness ==
  /\ fn = "map_terms_to_codes"
  /\ pc = "done"
  /\ arg = List(<<"Essential hypertension", "Epistaxis">>)
  /\ ret = List(<<"I10", "R04.0">>)

(***************************************************************************)
(* Properties of extract_diagnoses and main, checked under SpecMain.       *)
(***************************************************************************)
IdentifyingFields ==
  {"id_pasien", "nm_pasien", "jk", "umur_pasien", "id_kunjungan",
   "tgl_registrasi", "nm_dokter", "rekam_medis_narasi"}

Extracted == fn = "extract_diagnoses" /\ pc = "done"

\* C16: extract_diagnoses returns one record per input record, in input
\* order; the identifying fields and the ground truth of each are those of
\* the input record, its entities are those the extractor delivered for
\* that record, and the resolved codes are the only column added
C16_OneRecordPerInput ==
  Extracted =>
    /\ Len(ret) = Len(spark_df)
    /\ \A i \in 1..Len(ret) :
         /\ \A c \in IdentifyingFields : ret[i][c] = spark_df[i][c]
         /\ ret[i]["diagnosis_ground_truth"] = spark_df[i]["diagnosis_structured"]
         /\ ret[i]["entities_detected"] = ner_result[i]
         /\ DOMAIN ret[i] = IdentifyingFields
              \cup {"diagnosis_ground_truth", "entities_detected", "icd10_codes"}

\* two different records, with different entities, have been extracted and
\* one of them got codes
C16_Witness ==
  /\ Extracted
  /\ Len(ret) = 2
  /\ ret[1]["id_pasien"] # ret[2]["id_pasien"]
  /\ ret[1]["entities_detected"] # ret[2]["entities_detected"]
  /\ ret[1]["icd10_codes"] # <<>>
  /\ "catatan" \in DOMAIN spark_df[1]

(***************************************************************************)
(* Record independence, checked under SpecWorkers.                         *)
(***************************************************************************)
\* C17: under every interleaving of the workers, the codes a worker
\* returns for its record are those map_terms_to_codes gives for the
\* entities of that record alone (none for a record without entities)
C17_RecordIndependence ==
  \A w \in Workers :
    workers[w].pc = "done" =>
      workers[w].ret = IF Truthy(workers[w].x)
                         THEN map_terms_to_codes_of(workers[w].x.v)
                         ELSE <<>>

\* a worker has returned the codes of its record while another worker,
\* with another record, is in its scan and holds other codes
C17_Witness ==
  \E v, w \in Workers :
    /\ workers[v].pc = "done"
    /\ workers[w].pc = "scan"
    /\ workers[w].codes # <<>>
    /\ workers[v].ret # <<>>
    /\ workers[v].ret # workers[w].codes
    /\ workers[v].x # workers[w].x

(***************************************************************************)
(* The mapping under any sequence of calls, checked under SpecCalls.       *)
(***************************************************************************)
\* C18: no step of get_icd10_code, map_terms_to_codes, extract_diagnoses
\* or evaluate_extraction adds, removes, reorders or changes an entry of
\* the mapping
C18_MappingImmutable == [][mapping' = mapping]_vars

\* a call has resolved a term through the mapping and returned, and the
\* mapping is the one the constructor built
C18_Witness ==
  /\ pc = "done"
  /\ \/ fn = "get_icd10_code" /\ ret # None
     \/ fn = "extract_diagnoses" /\ \E i \in 1..Len(ret) : ret[i]["icd10_codes"] # <<>>
  /\ mapping = ICD10Mapper_init(cls)

(***************************************************************************)
(* The entries of the mapping, checked under SpecLookup (the mapper of     *)
(* either module).                                                         *)
(***************************************************************************)
Digits == "0123456789"
CharsOf(s) == {SubSeq(s, i, i) : i \in 1..Len(s)}
AlnumChars == CharsOf(UpperCase) \cup CharsOf(LowerCase) \cup CharsOf(Digits)

\* s has no uppercase letter
IsLowercase(s) == \A i \in 1..Len(s) : SubSeq(s, i, i) \notin UpperChars

\* c is alphanumeric, or two alphanumeric parts with one dot between them
IsCodeFormat(c) ==
  LET dots == {i \in 1..Len(c) : SubSeq(c, i, i) = "."}
  IN  /\ Len(c) > 0
      /\ Cardinality(dots) <= 1
      /\ \A i \in dots : 1 < i /\ i < Len(c)
      /\ \A i \in (1..Len(c)) \ dots : SubSeq(c, i, i) \in AlnumChars

\* C19: every entry of the mapping has a non-empty lowercase key and a
\* code that is alphanumeric with at most one suffix after a dot
C19_MappingEntry ==
  \A k \in 1..Len(mapping) :
    /\ Len(mapping[k].key) > 0
    /\ IsLowercase(mapping[k].key)
    /\ IsCodeFormat(mapping[k].code)

\* the mapper of icd10mapper.py is built and was used by a call; it has
\* codes without suffix and codes with a suffix of two digits
C19_Witness ==
  /\ cls = "icd10mapper"
  /\ pc = "done"
  /\ Len(mapping) = Len(icd10mapper_ICD10Mapper_mapping)
  /\ \E k \in 1..Len(mapping) : mapping[k].code = "C61"
  /\ \E k \in 1..Len(mapping) : mapping[k].code = "R06.02"
  /\ \E k \in 1..Len(mapping) : mapping[k].key = "essential (primary) hypertension"

(***************************************************************************)
(* Schema errors in a run of main, checked under SpecMain.                 *)
(***************************************************************************)
NineColumns ==
  {"id_pasien", "nm_pasien", "jk", "umur_pasien", "id_kunjungan",
   "tgl_registrasi", "nm_dokter", "rekam_medis_narasi", "diagnosis_structured"}

\* how often main logged or printed msg
Times_logged(msg) == Cardinality({i \in 1..Len(log) : log[i] = msg})

\* main has read the input file and has validated it
PastValidation == main_df # None /\ mpc # "loaded"

SchemaInvalid == \E c \in NineColumns : c \notin main_df.columns

\* C20: the validation fails exactly when one of the nine required
\* columns is absent; main then has reported the failure once and has
\* exited with status 1, extract_diagnoses and evaluate_extraction were not
\* called and no results file was written
C20_SchemaFailFast ==
  PastValidation =>
    /\ SchemaInvalid <=> Times_logged("ERROR CSV structure validation failed") > 0
    /\ SchemaInvalid =>
         /\ mpc = "exited"
         /\ exit_status = SystemExit(1)
         /\ Times_logged("ERROR CSV structure validation failed") = 1
         /\ Times_logged("Missing required columns") = 1
         /\ Times_logged("INFO Extracting diagnoses...") = 0
         /\ Times_logged("INFO Evaluating extraction results...") = 0
         /\ fn = "none"
         /\ pc = "idle"
         /\ spark_df = <<>>
         /\ results = None
         /\ eval_metrics = None
         /\ out_file = None

\* a file of two records that lacks two required columns has been read,
\* and main has exited
C20_Witness ==
  /\ PastValidation
  /\ Len(main_df.rows) = 2
  /\ "jk" \notin main_df.columns
  /\ "nm_dokter" \notin main_df.columns
  /\ mpc = "exited"
  /\ exit_status = SystemExit(1)
  /\ Times_logged("ERROR CSV structure validation failed") = 1

(***************************************************************************)
(* The order of a run of main and its failures, checked under SpecMain.    *)
(***************************************************************************)
\* the positions of main in the order of its text; the two last ones end
\* the run
MainOrder ==
  <<"start", "try", "loaded", "validated", "converted", "extracted", "printed",
    "saved", "returned", "exited">>
PosOf(p) == CHOOSE i \in 1..Len(MainOrder) : MainOrder[i] = p

MetricsLines ==
  {"Extraction Results:", "Accuracy", "Total Records Processed",
   "Correctly Matched Records", "Incorrectly Matched Records"}
MetricsPrinted == \E i \in 1..Len(log) : log[i] \in MetricsLines

\* C21: main never goes back in its text, it calls extract_diagnoses only
\* at the one place of the call and is past that place when the call is
\* over, so the call is made at most once; when the call raises, the next
\* step ends the run with status 1, no metrics printed, no file written
C21_ExtractorFailureNotRetried ==
  [][ /\ PosOf(mpc') >= PosOf(mpc)
      /\ mpc \notin {"returned", "exited"}
      /\ (fn # "extract_diagnoses" /\ fn' = "extract_diagnoses") => mpc = "converted"
      /\ (fn = "extract_diagnoses" /\ fn' # "extract_diagnoses")
           => PosOf(mpc') > PosOf("converted")
      /\ (fn = "extract_diagnoses" /\ pc = "raised")
           => /\ mpc' = "exited"
              /\ exit_status' = SystemExit(1)
              /\ out_file' = None
              /\ ~MetricsPrinted' ]_vars

\* extract_diagnoses was called on a batch of two records and raised, and
\* the run has ended
C21_Witness ==
  /\ mpc = "exited"
  /\ exit_status = SystemExit(1)
  /\ Len(spark_df) = 2
  /\ Times_logged("INFO Extracting diagnoses...") = 1
  /\ Times_logged("ERROR Error during execution") = 1
  /\ Times_logged("INFO Evaluating extraction results...") = 0

\* the row has no entities, no ground truth, or only entities that hold no
\* key of the mapping
NoEntities(row) == EntitiesOf(row) = <<>>
OnlyUnmapped(row) == \A j \in 1..Len(EntitiesOf(row)) : Hits(EntitiesOf(row)[j]) = {}

\* C22: no record makes the code mapping of extract_diagnoses or
\* evaluate_extraction raise (only the extractor does); a record without
\* entities or with unmapped entities only gets no codes, a record without
\* entities or without ground truth is not counted as matched; the codes
\* of every record are those of its own entities and the count of matched
\* records is the number of records that match by themselves
C22_DataGapsNotFatal ==
  /\ pc = "raised" => fn = "extract_diagnoses" /\ exc = "Py4JJavaError"
  /\ Extracted =>
       \A i \in 1..Len(ret) :
         /\ (NoEntities(ret[i]) \/ OnlyUnmapped(ret[i])) => ret[i]["icd10_codes"] = <<>>
         /\ ret[i]["icd10_codes"] = map_terms_to_codes_of(EntitiesOf(ret[i]))
  /\ (Evaluated /\ Len(results_df) > 0) =>
       LET matched == {i \in 1..Len(results_df) : NonEmptyEntityInGroundTruth(results_df[i])}
       IN  /\ ret.correctly_matched_records = Cardinality(matched)
           /\ \A i \in 1..Len(results_df) :
                (NoEntities(results_df[i]) \/ ~HasGroundTruth(results_df[i])) => i \notin matched

\* a batch of a record without entities and a record with an entity that
\* is in its ground truth and in no key of the mapping has been extracted
\* and evaluated: one record is matched, none has codes
C22_Witness ==
  /\ Evaluated
  /\ mpc = "extracted"
  /\ Len(results_df) = 2
  /\ results_df[1]["entities_detected"] = None
  /\ results_df[2]["entities_detected"] = List(<<"Status post-appendectomy">>)
  /\ results_df[1]["icd10_codes"] = <<>>
  /\ results_df[2]["icd10_codes"] = <<>>
  /\ ret.correctly_matched_records = 1

\* main has written the results file
FileWritten == mpc \in {"saved", "returned"}

\* C23: every record of the table main writes to the results file holds
\* the identifying fields, the detected entities, the resolved codes and a
\* boolean match flag, and the summary holds its four numbers
C23_OutputLayout ==
  FileWritten =>
    /\ \A i \in 1..Len(out_file) :
         /\ IdentifyingFields \cup {"entities_detected", "icd10_codes", "match_ground_truth"}
              \subseteq DOMAIN out_file[i]
         /\ out_file[i]["match_ground_truth"] \in BOOLEAN
    /\ DOMAIN eval_metrics = MetricsKeys

(***************************************************************************)
(* Relations between results of the resolvers, checked under Spec.         *)
(***************************************************************************)
\* c, a string of one character, with its case changed
SwapChar(c) ==
  IF c \in UpperChars THEN LowerChar(c)
  ELSE IF c \in CharsOf(LowerCase)
    THEN LET i == CHOOSE i \in 1..Len(LowerCase) : SubSeq(LowerCase, i, i) = c
         IN  SubSeq(UpperCase, i, i)
    ELSE c

RECURSIVE swapcase(_)
swapcase(s) ==
  IF Len(s) = 0 THEN ""
  ELSE SwapChar(SubSeq(s, 1, 1)) \o swapcase(SubSeq(s, 2, Len(s)))

MapTermsReturned == fn = "map_terms_to_codes" /\ pc = "done"

\* the set of the codes map_terms_to_codes returns for the list l
CodeSet(l) == ToSet(map_terms_to_codes_of(l))

\* C28: the set of the codes returned for a list is the union of the sets
\* for its two parts, wherever the list is cut, and is the set for the
\* parts in the other order and for the list repeated
C28_DistributesOverConcatenation ==
  MapTermsReturned =>
    LET E == arg.v IN
      \A k \in 0..Len(E) :
        LET E1 == SubSeq(E, 1, k)
            E2 == SubSeq(E, k + 1, Len(E))
        IN  /\ ToSet(ret.v) = CodeSet(E1) \cup CodeSet(E2)
            /\ ToSet(ret.v) = CodeSet(E2 \o E1)
            /\ ToSet(ret.v) = CodeSet(E \o E1)

\* two entities with different codes were resolved, in the mapper of
\* icd10mapper.py
C28_Witness ==
  /\ MapTermsReturned
  /\ cls = "icd10mapper"
  /\ arg.v = <<"Epistaxis", "Essential hypertension">>
  /\ ret.v = <<"R04.0", "I10">>

\* the codes of the entries of the table of utils.py whose key is in a
\* term of E, lowercased
ReferenceCodes(E) ==
  LET T == utils_ICD10Mapper_mapping
      L == [i \in 1..Len(E) |-> lower(E[i])]
  IN  {T[k].code : k \in {h \in 1..Len(T) : \E i \in 1..Len(L) : StrIn(T[h].key, L[i])}}

\* C29: the two tables have the same entries in the same order, and for
\* a list of entities map_terms_to_codes of either module and
\* map_diagnosis_to_icd10 all return the same set of codes
C29_ResolversAgree ==
  /\ utils_ICD10Mapper_mapping = icd10mapper_ICD10Mapper_mapping
  /\ (pc = "done" /\ fn \in Resolvers /\ arg # None) =>
       ToSet(ret.v) = ReferenceCodes(arg.v)

\* map_diagnosis_to_icd10 has returned two codes for two entities
C29_Witness ==
  /\ pc = "done"
  /\ fn = "map_diagnosis_to_icd10"
  /\ arg = List(<<"Community-acquired pneumonia", "Essential hypertension">>)
  /\ ToSet(ret.v) = {"J18.9", "I10"}

C25_KeyRoundTrip ==
  (fn = "get_icd10_code" /\ pc = "done") =>
    \A k \in 1..Len(mapping) : mapping[k].key = arg.v => ret = Str(mapping[k].code)

\* what main logs or prints when it starts, loads, extracts, evaluates,
\* has the metrics, has written the file and has completed, in the order
\* of its text
Milestones ==
  <<"INFO Starting Automated ICD Diagnosis Extraction...",
    "INFO Loading data from",
    "INFO Extracting diagnoses...",
    "INFO Evaluating extraction results...",
    "Extraction Results:",
    "Results saved to",
    "INFO ICD Diagnosis Extraction completed successfully!">>

Logged(msg) == Times_logged(msg) > 0
IndexOf(msg) == CHOOSE i \in 1..Len(log) : log[i] = msg

\* C26: the steps of main happen once each and in the order of its text,
\* a step only after the step before it; the data are loaded only when the
\* input file exists and extracted only when they are valid; the file is
\* written only after the four metrics were returned, success is logged
\* only after the file was written, and a run in which an exception was
\* handled has ended with status 1, without the later steps
C26_FixedOrder ==
  /\ \A j \in 1..Len(Milestones) : Times_logged(Milestones[j]) <= 1
  /\ \A j \in 2..Len(Milestones) :
       Logged(Milestones[j]) =>
         /\ Logged(Milestones[j - 1])
         /\ IndexOf(Milestones[j - 1]) < IndexOf(Milestones[j])
  /\ Logged("INFO Loading data from") => ~Logged("ERROR Input file does not exist")
  /\ Logged("INFO Extracting diagnoses...") =>
       /\ PastValidation
       /\ ~SchemaInvalid
       /\ ~Logged("ERROR CSV structure validation failed")
  /\ FileWritten <=> Logged("Results saved to")
  /\ FileWritten =>
       /\ DOMAIN eval_metrics = MetricsKeys
       /\ out_file = results
  /\ ~FileWritten => out_file = None
  /\ Logged("INFO ICD Diagnosis Extraction completed successfully!")
       <=> exit_status = SystemExit(0)
  /\ exit_status = SystemExit(0) => mpc = "returned" /\ FileWritten
  /\ (\/ Logged("ERROR Error during execution")
      \/ Logged("ERROR Input file does not exist")
      \/ Logged("ERROR CSV structure validation failed"))
       => /\ mpc = "exited"
          /\ exit_status = SystemExit(1)
          /\ Times_logged("ERROR Error during execution")
               + Times_logged("ERROR Input file does not exist")
               + Times_logged("ERROR CSV structure validation failed") = 1
  /\ mpc = "exited" <=> exit_status = SystemExit(1)

\* a run over two records has gone through all its steps
C26_Witness ==
  /\ mpc = "returned"
  /\ exit_status = SystemExit(0)
  /\ Len(out_file) = 2
  /\ \A j \in 1..Len(Milestones) : Logged(Milestones[j])

(***************************************************************************)
(* The handlers of the logger, checked under SpecLogging.                  *)
(***************************************************************************)
ConsoleHandlers == {i \in 1..Len(logger_handlers) : logger_handlers[i].type = "StreamHandler"}
FileHandlers == {i \in 1..Len(logger_handlers) : logger_handlers[i].type = "FileHandler"}

\* the most recent call was given a log file
PassedLogFile == log_file # None /\ log_file.v # ""

InAccuracy == fn = "calculate_simple_accuracy"

\* the predicted entities whose lowercased form is in the lowercased text g
PredictedInGroundTruth(p, g) ==
  {i \in 1..Len(p) : StrIn(lower(p[i]), lower(g))}

\* C30: calculate_simple_accuracy raises nothing and returns a score
\* between 0 and 1: 0 when the predicted list or the ground truth is empty
\* or None, otherwise the number of the predicted entities whose lowercased
\* form is in the lowercased ground truth over the number of predicted
\* entities; the count is never above the number of predicted entities
C30_ScoreBetweenZeroAndOne ==
  InAccuracy =>
    /\ pc # "raised"
    /\ pc = "count" => matches <= Len(arg.predicted.v)
    /\ pc = "done" =>
         /\ 0 <= ret.num /\ ret.num <= ret.den /\ ret.den > 0
         /\ IF \/ arg.predicted = None
               \/ arg.predicted.v = <<>>
               \/ arg.ground_truth = None
               \/ arg.ground_truth.v = ""
              THEN ret.num = 0
              ELSE ret = Frac(Cardinality(PredictedInGroundTruth(arg.predicted.v,
                                                               arg.ground_truth.v)),
                              Len(arg.predicted.v))

\* one of two predicted entities is in the ground truth: the score is 1/2
C30_Witness ==
  /\ InAccuracy
  /\ pc = "done"
  /\ arg = Args(List(<<"rash", "PNEUMONIA">>),
                Str("Community-acquired pneumonia, Hypertension stage 2"))
  /\ ret = Frac(1, 2)
====
